---- MODULE Spec2Model ----
(***************************************************************************)
(* A model of the Secret Hitler game engine                                *)
(* (src/secret_hitler_simulator/game.py): the play_game loop, the phases   *)
(* of play_round, the RoundRecord chain and its derived accessors, and the *)
(* agents' callbacks as nondeterministic inputs.                           *)
(*                                                                         *)
(* A player is identified with its index in Game.players (the seat): the   *)
(* code converts between the two with players.index / players[id].         *)
(* Optional fields use "None" (enumerations and booleans, kept as strings) *)
(* or None (integers); a dict that is still None is the empty function.    *)
(***************************************************************************)
EXTENDS Integers, Sequences, FiniteSets, TLC

\* ------------------------------------------------------------------ bounds
\* Seated players of the modelled game (a key of PARTY_MEMBERSHIP_BY_PLAYERS).
NumPlayers == 6
\* Rounds play_game may open before the model stops following the run.
MaxRounds == 6

\* --------------------------------------------------------------- encodings
\* Optional[int] = None
None == -9
\* A callback's return value that is not an int (fails isinstance(.., int)).
NotAnInt == 99
\* A callback that raises instead of returning: where an enumeration or a
\* bool is expected (Raises), where an int is expected (RaisesId).
Raises == "RAISES"
RaisesId == 98
\* A returned object that is no member of the expected enumeration / type.
Bogus == "BOGUS"

LIBERAL == "LIBERAL"
FASCIST == "FASCIST"
Policy == {LIBERAL, FASCIST}
Allegiance == {LIBERAL, FASCIST}

PARTY_MEMBERSHIP_BY_PLAYERS ==
    [n \in 5..10 |->
        CASE n = 5 -> [LIBERAL |-> 3, FASCIST |-> 2]
          [] n = 6 -> [LIBERAL |-> 4, FASCIST |-> 2]
          [] n = 7 -> [LIBERAL |-> 4, FASCIST |-> 3]
          [] n = 8 -> [LIBERAL |-> 5, FASCIST |-> 3]
          [] n = 9 -> [LIBERAL |-> 5, FASCIST |-> 4]
          [] OTHER -> [LIBERAL |-> 6, FASCIST |-> 4]]

\* Game.players: the seats, in the presidential order given at construction.
players == 0 .. (NumPlayers - 1)

\* ------------------------------------------------------------ sequence help
Range(s) == {s[i] : i \in DOMAIN s}

\* Python's s[:n] and s[n:], which never fail on a short sequence.
Take(s, n) == SubSeq(s, 1, IF n < Len(s) THEN n ELSE Len(s))
Drop(s, n) == SubSeq(s, n + 1, Len(s))

\* tuple.count(x)
Count(s, x) == Cardinality({i \in DOMAIN s : s[i] = x})

\* A removal that removes nobody.
WithoutNobody(s, x) == s

\* The tuple s without every occurrence of x (the comprehension of
\* execute_player), order kept.
RECURSIVE Without(_, _)
Without(s, x) ==
    IF s = <<>> THEN <<>>
    ELSE IF Head(s) = x THEN Without(Tail(s), x)
    ELSE <<Head(s)>> \o Without(Tail(s), x)

\* n copies of x: n * [x]
RECURSIVE Repeat(_, _)
Repeat(x, n) == IF n <= 0 THEN <<>> ELSE <<x>> \o Repeat(x, n - 1)

\* sum(d.values()) of a dict of ints (True is 1, False is 0)
RECURSIVE SumValues(_, _)
SumValues(d, keys) ==
    IF keys = {} THEN 0
    ELSE LET k == CHOOSE x \in keys : TRUE
         IN d[k] + SumValues(d, keys \ {k})

\* ------------------------------------------------------------------- state
VARIABLES
    liberals,                         \* Game.liberals
    fascists,                         \* Game.fascists
    hitler,                           \* Game.hitler
    policy_deck,                      \* Game.policy_deck
    presidential_order,               \* Game.presidential_order
    round_history,                    \* Game.round_history
    executed_players,                 \* Game.executed_players
    special_election_next_president,  \* Game.special_election_next_president
    previous_government,              \* Game.previous_government
    anarchy_counter,                  \* Game.anarchy_counter
    liberal_policies_passed,          \* Game.liberal_policies_passed
    fascist_policies_passed,          \* Game.fascist_policies_passed
    shot_hitler,                      \* Game.shot_hitler
    elected_hitler,                   \* Game.elected_hitler
    random_number_generator,          \* Game.random_number_generator
    pc,                               \* position in play_game / play_round
    president,                        \* play_round's local president
    chancellor,                       \* play_round's local chancellor
    successful_election,              \* play_round's local successful_election
    passed_policy,                    \* play_round's local passed_policy
    outcome,                          \* how play_game ended
    calls,                            \* callbacks invoked in the current round
    raised,                           \* the callback that raised, if any
    baseline_discard,                 \* the discard of baseline agents
    departed,                         \* a return has left the baseline
    perceived,                        \* the game state the last callback got
    random_state,                     \* the process-wide state of random
    consumed,                         \* an agent has drawn from random
    returned_id                       \* the last id an executive action got

vars == << liberals, fascists, hitler, policy_deck, presidential_order,
           round_history, executed_players, special_election_next_president,
           previous_government, anarchy_counter, liberal_policies_passed,
           fascist_policies_passed, shot_hitler, elected_hitler,
           random_number_generator, pc, president, chancellor,
           successful_election, passed_policy, outcome, calls, raised,
           baseline_discard, departed, perceived, random_state, consumed,
           returned_id >>

roles == << liberals, fascists, hitler >>
env == << baseline_discard >>

\* ------------------------------------------------------------- RoundRecord
\* A fresh RoundRecord as update_round_history builds it; _previous_record is
\* the record before it in round_history.
NewRoundRecord ==
    [ number_of_players |-> NumPlayers,
      fascists |-> fascists,
      hitler |-> hitler,
      president |-> None,
      declared_election_intent |-> << >>,
      chancellor |-> None,
      election_results |-> << >>,
      successful_election |-> "None",
      num_fascist_policies_for_president |-> None,
      policy_discarded_by_president |-> "None",
      num_fascist_policies_for_chancellor |-> None,
      policy_discarded_by_chancellor |-> "None",
      chancellor_veto |-> "None",
      president_veto |-> "None",
      president_claimed_number_of_fascist_cards_drawn |-> None,
      president_claimed_discarded_policy |-> "None",
      chancellor_claimed_discarded_policy |-> "None",
      anarchy_occured |-> "None",
      selected_policy |-> "None",
      investigated_player |-> None,
      investigated_player_identity |-> "None",
      claimed_investigated_player_allegiance |-> "None",
      special_election_next_president |-> None,
      executed_player |-> None,
      anarchy_result |-> "None",
      your_player_id |-> None ]

\* round_history[-1]
Last(h) == h[Len(h)]

\* An assignment that lands on the oldest record of the history.
SetFirst(h, rec) == [h EXCEPT ![1] = rec]

\* round_history[-1].<field> = value
SetLast(h, rec) == [h EXCEPT ![Len(h)] = rec]

\* RoundRecord.number_of_liberal_policies_passed of record k of chain h
RECURSIVE NumberOfLiberalPoliciesPassed(_, _)
NumberOfLiberalPoliciesPassed(h, k) ==
    LET passed_liberal_policy ==
            h[k].selected_policy = LIBERAL \/ h[k].anarchy_result = LIBERAL
    IN (IF k > 1 THEN NumberOfLiberalPoliciesPassed(h, k - 1) ELSE 0)
           + (IF passed_liberal_policy THEN 1 ELSE 0)

\* A fascist tally that counts the policies sessions selected and leaves out
\* the anarchy results.
RECURSIVE NumberOfFascistPoliciesSelected(_, _)
NumberOfFascistPoliciesSelected(h, k) ==
    (IF k > 1 THEN NumberOfFascistPoliciesSelected(h, k - 1) ELSE 0)
        + (IF h[k].selected_policy = FASCIST THEN 1 ELSE 0)

\* RoundRecord.number_of_fascist_policies_passed of record k of chain h
RECURSIVE NumberOfFascistPoliciesPassed(_, _)
NumberOfFascistPoliciesPassed(h, k) ==
    LET passed_fascist_policy ==
            h[k].selected_policy = FASCIST \/ h[k].anarchy_result = FASCIST
    IN (IF k > 1 THEN NumberOfFascistPoliciesPassed(h, k - 1) ELSE 0)
           + (IF passed_fascist_policy THEN 1 ELSE 0)

\* RoundRecord.anarchy_counter of record k of chain h (election_results is
\* None until hold_election has assigned it)
RECURSIVE AnarchyCounter(_, _)
AnarchyCounter(h, k) ==
    IF h[k].election_results = << >>
    THEN IF k > 1 THEN AnarchyCounter(h, k - 1) ELSE 0
    ELSE IF h[k].successful_election = "True" THEN 0
    ELSE IF k > 1 THEN AnarchyCounter(h, k - 1) + 1 ELSE 1

\* An executed_players that looks at record k alone.
RecordExecutedPlayersOfRound(h, k) ==
    IF h[k].executed_player = None THEN << >>
    ELSE << h[k].executed_player >>

\* RoundRecord.executed_players of record k of chain h
RECURSIVE RecordExecutedPlayers(_, _)
RecordExecutedPlayers(h, k) ==
    IF h[k].executed_player = None
    THEN IF k > 1 THEN RecordExecutedPlayers(h, k - 1) ELSE << >>
    ELSE IF k > 1
         THEN Append(RecordExecutedPlayers(h, k - 1), h[k].executed_player)
         ELSE << h[k].executed_player >>

\* An ineligible_for_chancellorship that forgets the executed players of a
\* small game.
RECURSIVE IneligibleForChancellorshipTermLimitsOnly(_, _)
IneligibleForChancellorshipTermLimitsOnly(h, k) ==
    IF k = 1 THEN << >>
    ELSE IF h[k].number_of_players - Len(RecordExecutedPlayers(h, k)) <= 5
    THEN << >>
    ELSE IF h[k - 1].successful_election = "True"
         THEN Append(RecordExecutedPlayers(h, k - 1), h[k - 1].chancellor)
         ELSE IneligibleForChancellorshipTermLimitsOnly(h, k - 1)

\* RoundRecord.ineligible_for_chancellorship of record k of chain h
RECURSIVE IneligibleForChancellorship(_, _)
IneligibleForChancellorship(h, k) ==
    IF k = 1 THEN << >>
    ELSE IF h[k].number_of_players - Len(RecordExecutedPlayers(h, k)) <= 5
    THEN RecordExecutedPlayers(h, k - 1)
    ELSE IF h[k - 1].successful_election = "True"
         THEN Append(RecordExecutedPlayers(h, k - 1), h[k - 1].chancellor)
         ELSE IneligibleForChancellorship(h, k - 1)

\* ----------------------------------------------------------- construction
\* The policy decks handed to Game.__init__: orderings of the 11 fascist and
\* 6 liberal cards of generate_random_policy_deck.
FFL == << FASCIST, FASCIST, LIBERAL >>
LLF == << LIBERAL, LIBERAL, FASCIST >>
InitialDecks ==
    { FFL \o FFL \o FFL \o FFL \o FFL \o << FASCIST, LIBERAL >>,
      Repeat(FASCIST, 3) \o Repeat(LIBERAL, 3) \o LLF \o FFL
          \o Repeat(FASCIST, 3) \o << FASCIST, FASCIST >> }

\* The seats Hitler may take; the other fascists sit right after Hitler.
HitlerSeats == { NumPlayers - 1 }

FascistsWith(h) ==
    { (h + i) % NumPlayers :
        i \in 0 .. (PARTY_MEMBERSHIP_BY_PLAYERS[NumPlayers].FASCIST - 1) }

Running == [kind |-> "running", winner |-> "None", reason |-> "None"]

Init ==
    /\ hitler \in HitlerSeats
    /\ fascists = FascistsWith(hitler)
    /\ liberals = players \ fascists
    /\ policy_deck \in InitialDecks
    /\ presidential_order = [i \in 1 .. NumPlayers |-> i - 1]
    /\ round_history = << >>
    /\ executed_players = << >>
    /\ special_election_next_president = None
    /\ previous_government = {}
    /\ anarchy_counter = 0
    /\ liberal_policies_passed = 0
    /\ fascist_policies_passed = 0
    /\ shot_hitler = FALSE
    /\ elected_hitler = FALSE
    /\ random_number_generator = 0
    /\ pc = "play_game"
    /\ president = None
    /\ chancellor = None
    /\ successful_election = "None"
    /\ passed_policy = "None"
    /\ outcome = Running
    /\ calls = {}
    /\ raised = << >>
    /\ baseline_discard \in Policy
    /\ departed = FALSE
    /\ perceived = << >>
    /\ random_state = random_number_generator
    /\ consumed = FALSE
    /\ returned_id = None

\* ------------------------------------------------------------ the agents
\* Agents are arbitrary code.  Each callback has a baseline return (what a
\* rule-abiding agent of this table answers) and a full set of returns with
\* lies, out-of-domain values and exceptions.  A game is followed along the
\* baseline with one return, at any callback of any round, taken from the
\* full set: departed tells that this return has been given.
Allowed(full, baseline) == IF departed THEN baseline ELSE full \cup baseline

Departure(ret, baseline) == ret \notin baseline

\* ------------------------------------------------------ perceived state
\* A value an agent writes into a field of the game state it was handed.
Scribbled == 77

\* A round_state that is the engine's own RoundRecord instead of a copy.
SameRecord(round) == [object |-> "engine", record |-> round]

\* copy.deepcopy(round): a new object, equal to the record and sharing
\* nothing with it.
DeepCopy(round) == [object |-> "copy", record |-> round]

\* Game.get_player_percieved_game_state on the history h: one round_state
\* for each round appended so far, with the player's id set on it.
GetPlayerPercievedGameState(h, player) ==
    [k \in DOMAIN h |->
        LET round_state == DeepCopy(h[k])
        IN [round_state EXCEPT !.record.your_player_id = player]]

\* What an agent may do to the game state it holds: nothing, or assign to a
\* field of one of its round states.
Unwritten == [k |-> 0, field |-> "None", value |-> None]

AgentWrites(game_state) ==
    IF departed THEN {Unwritten}
    ELSE {Unwritten} \cup
         { [k |-> k, field |-> f, value |-> Scribbled] :
              k \in DOMAIN game_state, f \in {"president", "executed_player"} }

\* The game state as the agent leaves it.
Written(game_state, w) ==
    [k \in DOMAIN game_state |->
        IF k = w.k
        THEN [game_state[k] EXCEPT !.record[w.field] = w.value]
        ELSE game_state[k]]

\* The engine's history h once the agent has returned: a round state that
\* is an object of the engine carries every assignment made to it, the
\* engine's own of your_player_id and the agent's, into the history.
EngineAfter(h, game_state, w) ==
    [k \in DOMAIN h |->
        IF k \in DOMAIN game_state /\ game_state[k].object = "engine"
        THEN [h[k] EXCEPT
                 !.your_player_id = game_state[k].record.your_player_id,
                 !.president = IF w.k = k /\ w.field = "president"
                               THEN w.value ELSE @,
                 !.executed_player =
                     IF w.k = k /\ w.field = "executed_player"
                     THEN w.value ELSE @]
        ELSE h[k]]

\* Whether an agent draws from the random module inside a callback, which
\* advances the state of the process; a draw is a departure like any other.
AgentDraws == IF departed THEN {FALSE} ELSE {FALSE, TRUE}

\* The players still alive: those not in Game.executed_players.
Living == {p \in players : p \notin Range(executed_players)}

\* The first living player seated after p that is not barred (p if none).
FirstAfter(p, barred) ==
    LET offs == {i \in 1 .. (NumPlayers - 1) :
                    /\ (p + i) % NumPlayers \in Living
                    /\ (p + i) % NumPlayers \notin barred}
    IN IF offs = {} THEN p
       ELSE (p + (CHOOSE i \in offs : \A j \in offs : i <= j)) % NumPlayers

\* players in seat order restricted to a set, as the loops over self.players
\* visit them.
FirstOf(S) == CHOOSE p \in S : \A q \in S : p <= q
LastOf(S) == CHOOSE p \in S : \A q \in S : q <= p

\* ------------------------------------------------------------- play_game
Returned(winner, reason) ==
    [kind |-> "returned", winner |-> winner, reason |-> reason]

\* An exception that is no PlayerException leaves play_game.
Escaped(error) == [kind |-> "escaped", winner |-> "None", reason |-> error]

\* The arguments Game.__init__ may be called with: role sets and a Hitler
\* among the player objects, and a presidential order that is complete, one
\* or two players short, or names its last player twice.
Persons == players

ConstructionOrders ==
    { [i \in 1 .. n |-> i - 1] : n \in (NumPlayers - 2) .. NumPlayers } \cup
    { [i \in 1 .. NumPlayers |->
          IF i = NumPlayers THEN NumPlayers - 2 ELSE i - 1] }

\* The exception the checks of Game.__init__ raise on its arguments, "None"
\* when they all pass; a player count that is no key of the table is a
\* KeyError of the lookup.
Validate(libs, fas, h, order) ==
    LET number_players == Len(order)
    IN IF \E i \in DOMAIN order :
              order[i] \notin libs /\ order[i] \notin fas /\ order[i] # h
       THEN "ValueError"
       ELSE IF ~ (libs \subseteq Range(order)) THEN "ValueError"
       ELSE IF ~ (fas \subseteq Range(order)) THEN "ValueError"
       ELSE IF h \notin Range(order) THEN "ValueError"
       ELSE IF number_players \notin DOMAIN PARTY_MEMBERSHIP_BY_PLAYERS
       THEN "KeyError"
       ELSE IF Cardinality(libs)
                  # PARTY_MEMBERSHIP_BY_PLAYERS[number_players].LIBERAL
       THEN "ValueError"
       ELSE IF Cardinality(fas)
                  # PARTY_MEMBERSHIP_BY_PLAYERS[number_players].FASCIST
       THEN "ValueError"
       ELSE "None"

\* The call of Game.__init__ with arbitrary arguments, about to be checked.
InitConstruct ==
    /\ liberals \in SUBSET Persons
    /\ fascists \in SUBSET Persons
    /\ hitler \in Persons
    /\ presidential_order \in ConstructionOrders
    /\ policy_deck = CHOOSE d \in InitialDecks : TRUE
    /\ round_history = << >>
    /\ executed_players = << >>
    /\ special_election_next_president = None
    /\ previous_government = {}
    /\ anarchy_counter = 0
    /\ liberal_policies_passed = 0
    /\ fascist_policies_passed = 0
    /\ shot_hitler = FALSE
    /\ elected_hitler = FALSE
    /\ random_number_generator = 0
    /\ pc = "__init__"
    /\ president = None
    /\ chancellor = None
    /\ successful_election = "None"
    /\ passed_policy = "None"
    /\ outcome = Running
    /\ calls = {}
    /\ raised = << >>
    /\ baseline_discard = LIBERAL
    /\ departed = FALSE
    /\ perceived = << >>
    /\ random_state = random_number_generator
    /\ consumed = FALSE
    /\ returned_id = None

\* Game.__init__: the checks, then the attributes are saved and the game is
\* ready for play_game; a failed check leaves no Game.
Construct ==
    /\ pc = "__init__"
    /\ LET error == Validate(liberals, fascists, hitler, presidential_order)
       IN IF error = "None"
          THEN /\ pc' = "play_game"
               /\ UNCHANGED outcome
          ELSE /\ pc' = "done"
               /\ outcome' = Escaped(error)
    /\ UNCHANGED << roles, env, random_state, consumed, returned_id, perceived,
                    policy_deck, presidential_order, round_history,
                    executed_players, special_election_next_president,
                    previous_government, anarchy_counter,
                    liberal_policies_passed, fascist_policies_passed,
                    shot_hitler, elected_hitler, random_number_generator,
                    president, chancellor, successful_election, passed_policy,
                    calls, raised, departed >>

SpecConstruct == InitConstruct /\ [][Construct]_vars

\* An except clause that hands the win to the offender's team.
PlayerExceptionOffenderWins(player) ==
    [kind |-> "returned",
     winner |-> IF player \in liberals THEN LIBERAL ELSE FASCIST,
     reason |-> "PlayerException"]

\* play_game's except clause: the offender's team loses.
PlayerException(player) ==
    IF player \in liberals THEN Returned(FASCIST, "PlayerException")
    ELSE IF player \in fascists THEN Returned(LIBERAL, "PlayerException")
    ELSE Returned("None", "None")

\* A termination predicate that takes 6 for the liberal threshold too.
DetermineIfWinnerAtSix(lib, shot, fas, elected) ==
    IF lib = 6 THEN << LIBERAL, "Passed 5 Liberal Policies" >>
    ELSE IF shot THEN << LIBERAL, "Shot Hitler" >>
    ELSE IF fas = 6 THEN << FASCIST, "Passed 6 Fascist Policies" >>
    ELSE IF elected THEN << FASCIST, "Elected Hitler" >>
    ELSE << "None", "None" >>

\* Game.determine_if_winner
DetermineIfWinner(lib, shot, fas, elected) ==
    IF lib = 5 THEN << LIBERAL, "Passed 5 Liberal Policies" >>
    ELSE IF shot THEN << LIBERAL, "Shot Hitler" >>
    ELSE IF fas = 6 THEN << FASCIST, "Passed 6 Fascist Policies" >>
    ELSE IF elected THEN << FASCIST, "Elected Hitler" >>
    ELSE << "None", "None" >>

determine_if_winner ==
    DetermineIfWinner(liberal_policies_passed, shot_hitler,
                      fascist_policies_passed, elected_hitler)

\* The while loop of play_game: another round, or the return.
PlayGame ==
    /\ pc = "play_game"
    /\ \/ /\ determine_if_winner[1] = "None"
          /\ Len(round_history) < MaxRounds
          /\ pc' = "update_policy_deck"
          /\ UNCHANGED outcome
       \/ /\ determine_if_winner[1] # "None"
          /\ outcome' = Returned(determine_if_winner[1], determine_if_winner[2])
          /\ pc' = "done"
    /\ UNCHANGED << roles, env, random_state, consumed, returned_id, perceived,
                    policy_deck, presidential_order, round_history,
                    executed_players, special_election_next_president,
                    previous_government, anarchy_counter,
                    liberal_policies_passed, fascist_policies_passed,
                    shot_hitler, elected_hitler, random_number_generator,
                    president, chancellor, successful_election, passed_policy,
                    calls, raised, departed >>

\* A rebuilt deck of all 17 cards, whatever has been passed.
ShuffleWholeDeck(nf, nl, rng) ==
    IF rng % 2 = 0 THEN Repeat(FASCIST, 11) \o Repeat(LIBERAL, 6)
    ELSE Repeat(LIBERAL, 6) \o Repeat(FASCIST, 11)

\* random.shuffle of nf fascist cards followed by nl liberal cards under the
\* generator state rng: the order is a function of the state alone.
Shuffle(nf, nl, rng) ==
    IF rng % 2 = 0 THEN Repeat(FASCIST, nf) \o Repeat(LIBERAL, nl)
    ELSE Repeat(LIBERAL, nl) \o Repeat(FASCIST, nf)

\* The generator state random.getstate() returns after that shuffle.
NextState(rng) == (rng + 1) % 2

\* A shuffle under whatever state the process is in.
KeepState(saved, process) == process

\* random.setstate(saved): the state of the process becomes the saved one.
SetState(saved, process) == saved

\* An update_policy_deck that rebuilds the deck only once it is empty.
UpdatePolicyDeckWhenEmpty ==
    /\ pc = "update_policy_deck"
    /\ IF Len(policy_deck) < 1
       THEN LET state == SetState(random_number_generator, random_state)
            IN /\ policy_deck' = Shuffle(11 - fascist_policies_passed,
                                         6 - liberal_policies_passed,
                                         state)
               /\ random_state' = NextState(state)
               /\ random_number_generator' = random_state'
       ELSE UNCHANGED << policy_deck, random_number_generator, random_state >>
    /\ pc' = "update_round_history"
    /\ UNCHANGED << roles, env, consumed, returned_id, perceived,
                    presidential_order, round_history,
                    executed_players, special_election_next_president,
                    previous_government, anarchy_counter,
                    liberal_policies_passed, fascist_policies_passed,
                    shot_hitler, elected_hitler, president, chancellor,
                    successful_election, passed_policy, outcome, calls, raised,
                    departed >>

\* Game.update_policy_deck
UpdatePolicyDeck ==
    /\ pc = "update_policy_deck"
    /\ IF Len(policy_deck) < 3
       THEN LET state == SetState(random_number_generator, random_state)
            IN /\ policy_deck' = Shuffle(11 - fascist_policies_passed,
                                         6 - liberal_policies_passed,
                                         state)
               /\ random_state' = NextState(state)
               /\ random_number_generator' = random_state'
       ELSE UNCHANGED << policy_deck, random_number_generator, random_state >>
    /\ pc' = "update_round_history"
    /\ UNCHANGED << roles, env, consumed, returned_id, perceived,
                    presidential_order, round_history,
                    executed_players, special_election_next_president,
                    previous_government, anarchy_counter,
                    liberal_policies_passed, fascist_policies_passed,
                    shot_hitler, elected_hitler, president, chancellor,
                    successful_election, passed_policy, outcome, calls, raised,
                    departed >>

\* Game.update_round_history
UpdateRoundHistory ==
    /\ pc = "update_round_history"
    /\ round_history' = Append(round_history, NewRoundRecord)
    /\ calls' = {}
    /\ pc' = "determine_next_president"
    /\ UNCHANGED << roles, env, random_state, consumed, returned_id, perceived,
                    policy_deck, presidential_order,
                    executed_players, special_election_next_president,
                    previous_government, anarchy_counter,
                    liberal_policies_passed, fascist_policies_passed,
                    shot_hitler, elected_hitler, random_number_generator,
                    president, chancellor, successful_election, passed_policy,
                    outcome, raised, departed >>

\* A determine_next_president that moves the head of the rotation to the
\* tail in a special-election round too.
DetermineNextPresidentAdvancing ==
    /\ pc = "determine_next_president"
    /\ president' = IF special_election_next_president # None
                    THEN special_election_next_president
                    ELSE Head(presidential_order)
    /\ special_election_next_president' = None
    /\ presidential_order' =
           Append(Tail(presidential_order), Head(presidential_order))
    /\ round_history' =
           SetLast(round_history,
                   [Last(round_history) EXCEPT !.president = president'])
    /\ pc' = "solicit_intent_to_vote"
    /\ UNCHANGED << roles, env, random_state, consumed, returned_id,
                    perceived, policy_deck, executed_players,
                    previous_government, anarchy_counter,
                    liberal_policies_passed, fascist_policies_passed,
                    shot_hitler, elected_hitler, random_number_generator,
                    chancellor, successful_election, passed_policy, outcome,
                    calls, raised, departed >>

\* Game.determine_next_president
DetermineNextPresident ==
    /\ pc = "determine_next_president"
    /\ IF special_election_next_president # None
       THEN /\ president' = special_election_next_president
            /\ special_election_next_president' = None
            /\ UNCHANGED presidential_order
       ELSE /\ president' = Head(presidential_order)
            /\ presidential_order' =
                   Append(Tail(presidential_order), Head(presidential_order))
            /\ UNCHANGED special_election_next_president
    /\ round_history' =
           SetLast(round_history,
                   [Last(round_history) EXCEPT !.president = president'])
    /\ pc' = "solicit_intent_to_vote"
    /\ UNCHANGED << roles, env, random_state, consumed, returned_id, perceived,
                    policy_deck, executed_players,
                    previous_government, anarchy_counter,
                    liberal_policies_passed, fascist_policies_passed,
                    shot_hitler, elected_hitler, random_number_generator,
                    chancellor, successful_election, passed_policy, outcome,
                    calls, raised, departed >>

\* The chancellor candidates solicit_intent_to_vote asks about.
IntentCandidates ==
    {c \in players :
        ~ \/ c \in Range(executed_players)
          \/ c = president
          \/ (c \in previous_government /\ Len(presidential_order) > 5)}

IntentBaseline == {"None"}
IntentReturns == {"None", "True", Raises}

\* Game.solicit_intent_to_vote; every call of a game returns the same value,
\* or the first call raises (no handler: the exception leaves play_game).
SolicitIntentToVote ==
    /\ pc = "solicit_intent_to_vote"
    /\ \E ret \in Allowed(IntentReturns, IntentBaseline) :
          IF ret = Raises /\ IntentCandidates # {}
          THEN /\ departed' = TRUE
               /\ calls' = calls \cup
                    {<< "intent_to_vote_on_government", FirstOf(Living) >>}
               /\ raised' =
                    << "intent_to_vote_on_government", FirstOf(Living) >>
               /\ perceived' =
                    GetPlayerPercievedGameState(round_history, FirstOf(Living))
               /\ outcome' = Escaped("Exception")
               /\ pc' = "done"
               /\ UNCHANGED round_history
          ELSE IF IntentCandidates = {}
          THEN /\ ret \in IntentBaseline
               /\ round_history' =
                    SetLast(round_history,
                        [Last(round_history) EXCEPT
                            !.declared_election_intent = << >>])
               /\ pc' = "select_chancellor"
               /\ UNCHANGED << calls, raised, outcome, departed, perceived >>
          ELSE LET game_state ==
                       GetPlayerPercievedGameState(round_history,
                                                   LastOf(Living))
               IN \E w \in AgentWrites(game_state) :
                  LET h == EngineAfter(round_history, game_state, w)
                  IN /\ w # Unwritten => ret \in IntentBaseline
                     /\ departed' = (\/ departed
                                     \/ Departure(ret, IntentBaseline)
                                     \/ w # Unwritten)
                     /\ perceived' = Written(game_state, w)
                     /\ calls' = calls \cup
                          {<< "intent_to_vote_on_government", p >> :
                              p \in Living}
                     /\ round_history' =
                          SetLast(h,
                              [Last(h) EXCEPT
                                  !.declared_election_intent =
                                      [c \in IntentCandidates |->
                                          [p \in Living |-> ret]]])
                     /\ pc' = "select_chancellor"
                     /\ UNCHANGED << raised, outcome >>
    /\ UNCHANGED << roles, env, random_state, consumed, returned_id,
                    policy_deck, presidential_order,
                    executed_players, special_election_next_president,
                    previous_government, anarchy_counter,
                    liberal_policies_passed, fascist_policies_passed,
                    shot_hitler, elected_hitler, random_number_generator,
                    president, chancellor, successful_election, passed_policy >>

\* What a rule-abiding president answers to select_chancellor: the next
\* living player who is not in the record's ineligibility set.
BaselineChancellor ==
    FirstAfter(president,
               Range(IneligibleForChancellorship(round_history,
                                                 Len(round_history))))

PlayerIdReturns == (-1 .. NumPlayers) \cup {NotAnInt, RaisesId}

\* self.players[id]: the player, or the error Python raises.
PlayersAt(id) ==
    IF id = NotAnInt THEN [error |-> "TypeError", player |-> None]
    ELSE IF id >= NumPlayers \/ id < 0 - NumPlayers
    THEN [error |-> "IndexError", player |-> None]
    ELSE IF id < 0 THEN [error |-> "None", player |-> NumPlayers + id]
    ELSE [error |-> "None", player |-> id]

\* Game.select_chancellor
SelectChancellor ==
    /\ pc = "select_chancellor"
    /\ LET president_perspective ==
               GetPlayerPercievedGameState(round_history, president)
       IN \E ret \in Allowed(PlayerIdReturns, {BaselineChancellor}),
             w \in AgentWrites(president_perspective),
             draws \in AgentDraws :
          LET h == EngineAfter(round_history, president_perspective, w)
          IN /\ w # Unwritten => ret = BaselineChancellor
             /\ draws => (ret = BaselineChancellor /\ w = Unwritten)
             /\ departed' = (\/ departed
                             \/ Departure(ret, {BaselineChancellor})
                             \/ w # Unwritten
                             \/ draws)
             /\ random_state' = IF draws THEN NextState(random_state)
                                ELSE random_state
             /\ consumed' = (consumed \/ draws)
             /\ perceived' = Written(president_perspective, w)
             /\ calls' = calls \cup {<< "select_chancellor", president >>}
             /\ IF ret = RaisesId
                THEN /\ raised' = << "select_chancellor", president >>
                     /\ outcome' = PlayerException(president)
                     /\ pc' = "done"
                     /\ round_history' = h
                     /\ UNCHANGED chancellor
                ELSE /\ round_history' =
                          SetLast(h, [Last(h) EXCEPT !.chancellor = ret])
                     /\ UNCHANGED raised
                     /\ IF PlayersAt(ret).error # "None"
                        THEN /\ outcome' = Escaped(PlayersAt(ret).error)
                             /\ pc' = "done"
                             /\ UNCHANGED chancellor
                        ELSE /\ chancellor' = PlayersAt(ret).player
                             /\ pc' = "hold_election"
                             /\ UNCHANGED outcome
    /\ UNCHANGED << roles, env, returned_id, policy_deck, presidential_order,
                    executed_players, special_election_next_president,
                    previous_government, anarchy_counter,
                    liberal_policies_passed, fascist_policies_passed,
                    shot_hitler, elected_hitler, random_number_generator,
                    president, successful_election, passed_policy >>

\* The first k of the living players, in seat order.
FirstLiving(k) == {p \in Living : Cardinality({q \in Living : q < p}) < k}

\* The ballots of the living players: everybody for, everybody against ...
VoteBaseline == { [p \in Living |-> 1], [p \in Living |-> 0] }

\* ... or exactly half of the seats for, one more than half for, or a first
\* voter returning the integer 2 (no bool) beside one yes fewer than half.
VoteProfiles ==
    VoteBaseline \cup
    { [p \in Living |-> IF p \in FirstLiving(k) THEN 1 ELSE 0] :
        k \in {NumPlayers \div 2, (NumPlayers \div 2) + 1} } \cup
    { [p \in Living |-> IF p = FirstOf(Living) THEN 2
                        ELSE IF p \in FirstLiving(NumPlayers \div 2) THEN 1
                        ELSE 0] }

\* A majority of the players who voted instead of the players seated.
ElectionSucceedsAmongVoters(election_results) ==
    2 * SumValues(election_results, DOMAIN election_results)
        > Cardinality(DOMAIN election_results)

\* sum(election_results.values()) > len(self.players) / 2
ElectionSucceeds(election_results) ==
    2 * SumValues(election_results, DOMAIN election_results) > NumPlayers

\* Game.hold_election; a vote callback that raises has no handler.
HoldElection ==
    /\ pc = "hold_election"
    /\ \/ LET player_perception ==
                  GetPlayerPercievedGameState(round_history, LastOf(Living))
          IN \E election_results \in Allowed(VoteProfiles, VoteBaseline),
                w \in AgentWrites(player_perception) :
             LET h == EngineAfter(round_history, player_perception, w)
             IN /\ w # Unwritten => election_results \in VoteBaseline
                /\ departed' =
                       (\/ departed
                        \/ Departure(election_results, VoteBaseline)
                        \/ w # Unwritten)
                /\ perceived' = Written(player_perception, w)
                /\ calls' = calls \cup
                       {<< "vote_on_government", p >> : p \in Living}
                /\ successful_election' =
                       IF ElectionSucceeds(election_results) THEN "True"
                       ELSE "False"
                /\ round_history' =
                       SetLast(h,
                           [Last(h) EXCEPT
                               !.election_results = election_results,
                               !.successful_election = successful_election'])
                /\ pc' = "election_results"
                /\ UNCHANGED << raised, outcome >>
       \/ /\ ~ departed
          /\ departed' = TRUE
          /\ calls' = calls \cup {<< "vote_on_government", FirstOf(Living) >>}
          /\ raised' = << "vote_on_government", FirstOf(Living) >>
          /\ perceived' =
                 GetPlayerPercievedGameState(round_history, FirstOf(Living))
          /\ outcome' = Escaped("Exception")
          /\ pc' = "done"
          /\ UNCHANGED << round_history, successful_election >>
    /\ UNCHANGED << roles, env, random_state, consumed, returned_id,
                    policy_deck, presidential_order,
                    executed_players, special_election_next_president,
                    previous_government, anarchy_counter,
                    liberal_policies_passed, fascist_policies_passed,
                    shot_hitler, elected_hitler, random_number_generator,
                    president, chancellor, passed_policy >>

\* The Hitler check without its threshold on the fascist tally.
HitlerElectedAtAnyTally(fas, chanc) == chanc = hitler

\* The Hitler check of play_round: chancellor is self.hitler once three
\* fascist policies are passed.
HitlerElected(fas, chanc) == fas >= 3 /\ chanc = hitler

\* play_round after the election: the Hitler check, or on to the
\* legislative session; a failed election counts towards anarchy.
ElectionResults ==
    /\ pc = "election_results"
    /\ IF successful_election = "True"
       THEN /\ IF HitlerElected(fascist_policies_passed, chancellor)
               THEN /\ elected_hitler' = TRUE
                    /\ pc' = "play_game"
               ELSE /\ pc' = "hold_legislation_session"
                    /\ UNCHANGED elected_hitler
            /\ UNCHANGED anarchy_counter
       ELSE /\ anarchy_counter' = anarchy_counter + 1
            /\ pc' = IF anarchy_counter' = 3 THEN "execute_anarchy"
                     ELSE "play_game"
            /\ UNCHANGED elected_hitler
    /\ UNCHANGED << roles, env, random_state, consumed, returned_id, perceived,
                    policy_deck, presidential_order, round_history,
                    executed_players, special_election_next_president,
                    previous_government, liberal_policies_passed,
                    fascist_policies_passed, shot_hitler,
                    random_number_generator, president, chancellor,
                    successful_election, passed_policy, outcome, calls, raised,
                    departed >>

\* ---------------------------------------------------- legislative session
\* A draw that hands over the three cards below the top card.
DrawBelowTheTop(deck) ==
    [cards |-> Take(Drop(deck, 1), 3), deck |-> Drop(deck, 3)]

\* A draw of the top four cards.
DrawFourCards(deck) == [cards |-> Take(deck, 4), deck |-> Drop(deck, 4)]

\* Game.draw_legislative_session_policies: the cards drawn, the deck left.
DrawLegislativeSessionPolicies(deck) ==
    [cards |-> Take(deck, 3), deck |-> Drop(deck, 3)]

\* The session as it stands after each step of hold_legislation_session:
\* rec is round_history[-1]; fault is the player a PlayerException names,
\* error an exception of another type; pdisc, cdisc, sel, veto are the
\* method's locals.
Skip == "SKIP"
Halted(s) == s.fault # None \/ s.error # "None"

\* The returns a callback of the session may give in s, when it is called.
SessionReturns(s, called, full, baseline) ==
    IF Halted(s) \/ ~ called THEN {Skip}
    ELSE IF s.dep THEN baseline
    ELSE full \cup baseline

Called(s, method, player, ret, baseline, raises) ==
    [s EXCEPT !.calls = @ \cup {<< method, player >>},
              !.dep = @ \/ Departure(ret, baseline),
              !.raised = IF raises THEN << method, player >> ELSE @,
              !.view = GetPlayerPercievedGameState(
                           SetLast(round_history, s.rec), player)]

Opposite(policy) == IF policy = FASCIST THEN LIBERAL ELSE FASCIST

SessionDrawn ==
    LET drawn == DrawLegislativeSessionPolicies(policy_deck)
        nfp == Count(drawn.cards, FASCIST)
    IN [ rec |-> [Last(round_history) EXCEPT
                     !.num_fascist_policies_for_president = nfp],
         deck |-> drawn.deck,
         nfp |-> nfp,
         lib |-> liberal_policies_passed,
         fas |-> fascist_policies_passed,
         calls |-> calls,
         dep |-> departed,
         raised |-> raised,
         view |-> perceived,
         fault |-> None,
         error |-> "None",
         pdisc |-> "None",
         nfc |-> None,
         cdisc |-> "None",
         sel |-> "None",
         cveto |-> "None",
         veto |-> FALSE,
         pclaim |-> << None, "None" >> ]

DiscardReturns == {LIBERAL, FASCIST, Bogus, Raises}

\* A president who is asked whatever was drawn.
PresidentAlwaysChooses(s) == TRUE

\* case 1 | 2 of the president's match: the president is asked.
PresidentChooses(s) == s.nfp \in {1, 2}

\* The president discards (lines 284-325).
PresidentDiscarded(s, ret) ==
    LET t == IF PresidentChooses(s)
             THEN Called(s, "select_policy_to_discard_as_president",
                         president, ret, {baseline_discard}, ret = Raises)
             ELSE s
        pdisc == CASE s.nfp = 0 -> LIBERAL
                   [] s.nfp \in {1, 2} -> ret
                   [] s.nfp = 3 -> FASCIST
                   [] OTHER -> "None"
        nfc == IF pdisc = LIBERAL THEN s.nfp ELSE s.nfp - 1
    IN IF Halted(s) THEN s
       ELSE IF s.nfp \notin 0 .. 3 THEN [t EXCEPT !.error = "ValueError"]
       ELSE IF pdisc \notin Policy THEN [t EXCEPT !.fault = president]
       ELSE [t EXCEPT !.pdisc = pdisc,
                      !.nfc = nfc,
                      !.rec = [@ EXCEPT
                          !.policy_discarded_by_president = pdisc,
                          !.num_fascist_policies_for_chancellor = nfc]]

ChancellorChooses(s) == s.nfc = 1

\* The chancellor discards and the other card is selected (lines 326-366).
ChancellorDiscarded(s, ret) ==
    LET t == IF ChancellorChooses(s)
             THEN Called(s, "select_policy_to_discard_as_chancellor",
                         chancellor, ret, {baseline_discard}, ret = Raises)
             ELSE s
        cdisc == CASE s.nfc = 0 -> LIBERAL
                   [] s.nfc = 1 -> ret
                   [] s.nfc = 2 -> FASCIST
                   [] OTHER -> "None"
        sel == CASE s.nfc = 0 -> LIBERAL
                 [] s.nfc = 1 -> IF ret = FASCIST THEN LIBERAL ELSE FASCIST
                 [] s.nfc = 2 -> FASCIST
                 [] OTHER -> "None"
    IN IF Halted(s) THEN s
       ELSE IF s.nfc \notin 0 .. 2
       THEN [t EXCEPT !.error = "UnboundLocalError"]
       ELSE IF cdisc \notin Policy THEN [t EXCEPT !.fault = chancellor]
       ELSE [t EXCEPT !.cdisc = cdisc,
                      !.sel = sel,
                      !.rec = [@ EXCEPT
                          !.policy_discarded_by_chancellor = cdisc]]

VetoReturns == {"True", "False", Bogus, Raises}
VetoBaseline == {"True", "False"}

\* A veto power that is there from the first session on.
VetoUnlockedAtAnyTally(s) == s.fas >= 0

\* The veto power is unlocked (line 368).
VetoUnlocked(s) == s.fas >= 5

\* The chancellor's veto declaration (lines 368-387).
ChancellorVetoed(s, ret) ==
    LET t == Called(s, "veto_legislation", chancellor, ret, VetoBaseline,
                    ret = Raises)
    IN IF Halted(s) \/ ~ VetoUnlocked(s) THEN s
       ELSE IF ret \notin {"True", "False"} THEN [t EXCEPT !.fault = chancellor]
       ELSE [t EXCEPT !.cveto = ret,
                      !.rec = [@ EXCEPT !.chancellor_veto = ret]]

PresidentAsked(s) == s.cveto = "True"

\* The president's agreement to a declared veto (lines 387-410).
PresidentVetoed(s, ret) ==
    LET t == Called(s, "veto_legislation", president, ret, VetoBaseline,
                    ret = Raises)
    IN IF Halted(s) \/ ~ PresidentAsked(s) THEN s
       ELSE IF ret \notin {"True", "False"} THEN [t EXCEPT !.fault = president]
       ELSE [t EXCEPT !.veto = (ret = "True"),
                      !.rec = [@ EXCEPT !.president_veto = ret]]

\* Enact the policy unless vetoed (lines 412-421).
Enacted(s) ==
    IF Halted(s) \/ s.veto THEN s
    ELSE [s EXCEPT !.lib = IF s.sel = LIBERAL THEN @ + 1 ELSE @,
                   !.fas = IF s.sel = FASCIST THEN @ + 1 ELSE @,
                   !.rec = [@ EXCEPT !.selected_policy = s.sel]]

\* What the president may claim: the truth; one more fascist card than
\* drawn or the other discard; a count of 4, no Policy, or an exception.
PresidentClaimBaseline(s) == { << s.nfp, s.pdisc >> }
PresidentClaimReturns(s) ==
    { << s.nfp, s.pdisc >>, << (s.nfp + 1) % 4, s.pdisc >>,
      << s.nfp, Opposite(s.pdisc) >>, << 4, s.pdisc >>, << s.nfp, Bogus >>,
      << RaisesId, Raises >> }

\* A president's claim that is written to the record as soon as it is made.
PresidentClaimedAndRecorded(s, ret) ==
    LET t == Called(s, "claimed_policy_to_discard_as_president", president,
                    ret, PresidentClaimBaseline(s), ret[1] = RaisesId)
    IN IF Halted(s) THEN s
       ELSE IF ret[1] = RaisesId \/ ret[1] \notin 0 .. 3 \/ ret[2] \notin Policy
       THEN [t EXCEPT !.fault = president]
       ELSE [t EXCEPT !.pclaim = ret,
                      !.rec = [@ EXCEPT
                !.president_claimed_number_of_fascist_cards_drawn = ret[1],
                !.president_claimed_discarded_policy = ret[2]]]

\* The president's claim (lines 424-456); nothing is recorded yet.
PresidentClaimed(s, ret) ==
    LET t == Called(s, "claimed_policy_to_discard_as_president", president,
                    ret, PresidentClaimBaseline(s), ret[1] = RaisesId)
    IN IF Halted(s) THEN s
       ELSE IF ret[1] = RaisesId \/ ret[1] \notin 0 .. 3 \/ ret[2] \notin Policy
       THEN [t EXCEPT !.fault = president]
       ELSE [t EXCEPT !.pclaim = ret]

ChancellorClaimBaseline(s) == { s.cdisc }
ChancellorClaimReturns(s) == { s.cdisc, Opposite(s.cdisc), Bogus, Raises }

\* The chancellor's claim, then the three claim fields (lines 457-489).
ChancellorClaimed(s, ret) ==
    LET t == Called(s, "claimed_policy_to_discard_as_chancellor", chancellor,
                    ret, ChancellorClaimBaseline(s), ret = Raises)
    IN IF Halted(s) THEN s
       ELSE IF ret \notin Policy THEN [t EXCEPT !.fault = chancellor]
       ELSE [t EXCEPT !.rec = [@ EXCEPT
                !.president_claimed_number_of_fascist_cards_drawn = s.pclaim[1],
                !.president_claimed_discarded_policy = s.pclaim[2],
                !.chancellor_claimed_discarded_policy = ret]]

\* Game.hold_legislation_session; play_round then dispatches on the policy
\* the method returns (lines 157-160).
HoldLegislationSession ==
    /\ pc = "hold_legislation_session"
    /\ LET s0 == SessionDrawn
       IN \E pd \in SessionReturns(s0, PresidentChooses(s0), DiscardReturns,
                                   {baseline_discard}) :
          LET s1 == PresidentDiscarded(s0, pd)
          IN \E cd \in SessionReturns(s1, ChancellorChooses(s1), DiscardReturns,
                                      {baseline_discard}) :
          LET s2 == ChancellorDiscarded(s1, cd)
          IN \E cv \in SessionReturns(s2, VetoUnlocked(s2), VetoReturns,
                                      VetoBaseline) :
          LET s3 == ChancellorVetoed(s2, cv)
          IN \E pv \in SessionReturns(s3, PresidentAsked(s3), VetoReturns,
                                      VetoBaseline) :
          LET s4 == Enacted(PresidentVetoed(s3, pv))
          IN \E pcl \in IF Halted(s4) THEN { << None, "None" >> }
                        ELSE IF s4.dep THEN PresidentClaimBaseline(s4)
                        ELSE PresidentClaimReturns(s4) :
          LET s5 == PresidentClaimed(s4, pcl)
          IN \E ccl \in SessionReturns(s5, TRUE, ChancellorClaimReturns(s5),
                                       ChancellorClaimBaseline(s5)) :
          LET s == ChancellorClaimed(s5, ccl)
          IN \E w \in IF s.dep THEN {Unwritten} ELSE AgentWrites(s.view) :
             /\ round_history' =
                    EngineAfter(SetLast(round_history, s.rec), s.view, w)
             /\ perceived' = Written(s.view, w)
             /\ policy_deck' = s.deck
             /\ liberal_policies_passed' = s.lib
             /\ fascist_policies_passed' = s.fas
             /\ calls' = s.calls
             /\ departed' = (s.dep \/ w # Unwritten)
             /\ raised' = s.raised
             /\ IF s.fault # None
                THEN /\ outcome' = PlayerException(s.fault)
                     /\ pc' = "done"
                     /\ UNCHANGED passed_policy
                ELSE IF s.error # "None"
                THEN /\ outcome' = Escaped(s.error)
                     /\ pc' = "done"
                     /\ UNCHANGED passed_policy
                ELSE /\ passed_policy' = s.sel
                     /\ pc' = IF s.sel = FASCIST THEN "executive_action"
                              ELSE "play_game"
                     /\ UNCHANGED outcome
    /\ UNCHANGED << roles, env, random_state, consumed, returned_id,
                    presidential_order, executed_players,
                    special_election_next_president, previous_government,
                    anarchy_counter, shot_hitler, elected_hitler,
                    random_number_generator, president, chancellor,
                    successful_election >>

\* ------------------------------------------------------ executive actions
\* An executive_action that is an investigation at every tally.
ExecutiveActionInvestigating ==
    /\ pc = "executive_action"
    /\ pc' = "investigate_player"
    /\ UNCHANGED << roles, env, random_state, consumed, returned_id,
                    perceived, policy_deck, presidential_order, round_history,
                    executed_players, special_election_next_president,
                    previous_government, anarchy_counter,
                    liberal_policies_passed, fascist_policies_passed,
                    shot_hitler, elected_hitler, random_number_generator,
                    president, chancellor, successful_election, passed_policy,
                    outcome, calls, raised, departed >>

\* Game.executive_action: the dispatch on the fascist tally.
ExecutiveAction ==
    /\ pc = "executive_action"
    /\ IF fascist_policies_passed \in 1 .. 6
       THEN /\ pc' = CASE fascist_policies_passed \in {1, 2} ->
                            "investigate_player"
                       [] fascist_policies_passed = 3 ->
                            "declare_special_election"
                       [] fascist_policies_passed \in {4, 5} ->
                            "execute_player"
                       [] OTHER -> "play_game"
            /\ UNCHANGED outcome
       ELSE /\ outcome' = Escaped("ValueError")
            /\ pc' = "done"
    /\ UNCHANGED << roles, env, random_state, consumed, returned_id, perceived,
                    policy_deck, presidential_order, round_history,
                    executed_players, special_election_next_president,
                    previous_government, anarchy_counter,
                    liberal_policies_passed, fascist_policies_passed,
                    shot_hitler, elected_hitler, random_number_generator,
                    president, chancellor, successful_election, passed_policy,
                    calls, raised, departed >>

\* What a rule-abiding president answers when asked for a target: the next
\* living player.
BaselineTarget ==
    FirstAfter(president, {})

\* not isinstance(id, int) or id < 0 or id > len(self.players) - 1
InvalidPlayerId(id) == id = NotAnInt \/ id < 0 \/ id > NumPlayers - 1

\* The allegiance investigate_player finds for a player.
Identity(player) == IF player \in liberals THEN LIBERAL ELSE FASCIST

InvestigationClaims(truth) == {truth, Opposite(truth), Bogus, Raises}

\* Game.investigate_player
InvestigatePlayer ==
    /\ pc = "investigate_player"
    /\ LET president_perceptive ==
               GetPlayerPercievedGameState(round_history, president)
       IN \E ret \in Allowed(PlayerIdReturns, {BaselineTarget}),
             w \in AgentWrites(president_perceptive) :
          LET dep == \/ departed
                     \/ Departure(ret, {BaselineTarget})
                     \/ w # Unwritten
              called == calls \cup
                            {<< "select_player_to_investigate", president >>}
              h == EngineAfter(round_history, president_perceptive, w)
          IN /\ w # Unwritten => ret = BaselineTarget
             /\ returned_id' = ret
             /\ perceived' = Written(president_perceptive, w)
             /\ IF ret = RaisesId \/ InvalidPlayerId(ret)
                THEN /\ raised' = IF ret = RaisesId
                                  THEN << "select_player_to_investigate",
                                          president >>
                                  ELSE raised
                     /\ outcome' = PlayerException(president)
                     /\ pc' = "done"
                     /\ calls' = called
                     /\ departed' = dep
                     /\ round_history' = h
                ELSE \E claim \in IF dep THEN {Identity(ret)}
                                  ELSE InvestigationClaims(Identity(ret)) :
                     LET rec == [Last(h) EXCEPT
                                    !.investigated_player = ret,
                                    !.investigated_player_identity =
                                        Identity(ret)]
                     IN /\ calls' = called \cup
                            {<< "claimed_player_investigation_result",
                                president >>}
                        /\ departed' =
                               (dep \/ Departure(claim, {Identity(ret)}))
                        /\ IF claim = Raises
                           THEN /\ raised' =
                                    << "claimed_player_investigation_result",
                                       president >>
                                /\ outcome' = Escaped("Exception")
                                /\ pc' = "done"
                                /\ round_history' = SetLast(h, rec)
                           ELSE /\ round_history' =
                                    SetLast(h,
                                        [rec EXCEPT
                                   !.claimed_investigated_player_allegiance =
                                            claim])
                                /\ pc' = "play_game"
                                /\ UNCHANGED << raised, outcome >>
    /\ UNCHANGED << roles, env, random_state, consumed,
                    policy_deck, presidential_order,
                    executed_players, special_election_next_president,
                    previous_government, anarchy_counter,
                    liberal_policies_passed, fascist_policies_passed,
                    shot_hitler, elected_hitler, random_number_generator,
                    president, chancellor, successful_election, passed_policy >>

\* Game.declare_special_election
DeclareSpecialElection ==
    /\ pc = "declare_special_election"
    /\ LET president_perceptive ==
               GetPlayerPercievedGameState(round_history, president)
       IN \E ret \in Allowed(PlayerIdReturns, {BaselineTarget}),
             w \in AgentWrites(president_perceptive) :
          LET h == EngineAfter(round_history, president_perceptive, w)
          IN /\ w # Unwritten => ret = BaselineTarget
             /\ departed' = (\/ departed
                             \/ Departure(ret, {BaselineTarget})
                             \/ w # Unwritten)
             /\ returned_id' = ret
             /\ perceived' = Written(president_perceptive, w)
             /\ calls' = calls \cup
                    {<< "select_special_election_president", president >>}
             /\ raised' = IF ret = RaisesId
                          THEN << "select_special_election_president",
                                  president >>
                          ELSE raised
             /\ IF \/ ret = RaisesId
                   \/ InvalidPlayerId(ret)
                   \/ ret = president
                   \/ ret \in Range(executed_players)
                THEN /\ outcome' = PlayerException(president)
                     /\ pc' = "done"
                     /\ round_history' = h
                     /\ UNCHANGED special_election_next_president
                ELSE /\ special_election_next_president' = ret
                     /\ round_history' =
                            SetLast(h,
                                [Last(h) EXCEPT
                                    !.special_election_next_president = ret])
                     /\ pc' = "play_game"
                     /\ UNCHANGED outcome
    /\ UNCHANGED << roles, env, random_state, consumed,
                    policy_deck, presidential_order,
                    executed_players, previous_government, anarchy_counter,
                    liberal_policies_passed, fascist_policies_passed,
                    shot_hitler, elected_hitler, random_number_generator,
                    president, chancellor, successful_election, passed_policy >>

\* Game.execute_player
ExecutePlayer ==
    /\ pc = "execute_player"
    /\ LET president_perceptive ==
               GetPlayerPercievedGameState(round_history, president)
       IN \E ret \in Allowed(PlayerIdReturns, {BaselineTarget}),
             w \in AgentWrites(president_perceptive) :
          LET h == EngineAfter(round_history, president_perceptive, w)
          IN /\ w # Unwritten => ret = BaselineTarget
             /\ departed' = (\/ departed
                             \/ Departure(ret, {BaselineTarget})
                             \/ w # Unwritten)
             /\ returned_id' = ret
             /\ perceived' = Written(president_perceptive, w)
             /\ calls' = calls \cup
                    {<< "select_player_to_execute", president >>}
             /\ raised' = IF ret = RaisesId
                          THEN << "select_player_to_execute", president >>
                          ELSE raised
             /\ IF \/ ret = RaisesId
                   \/ InvalidPlayerId(ret)
                   \/ ret \in Range(executed_players)
                THEN /\ outcome' = PlayerException(president)
                     /\ pc' = "done"
                     /\ round_history' = h
                     /\ UNCHANGED << executed_players, presidential_order >>
                ELSE /\ executed_players' = Append(executed_players, ret)
                     /\ presidential_order' =
                            Without(presidential_order, ret)
                     /\ round_history' =
                            SetLast(h, [Last(h) EXCEPT !.executed_player = ret])
                     /\ pc' = "play_game"
                     /\ UNCHANGED outcome
    /\ UNCHANGED << roles, env, random_state, consumed,
                    policy_deck, special_election_next_president,
                    previous_government, anarchy_counter,
                    liberal_policies_passed, fascist_policies_passed,
                    shot_hitler, elected_hitler, random_number_generator,
                    president, chancellor, successful_election, passed_policy >>

\* A draw that reads the top card and leaves it on the deck.
DrawAnarchyPolicyLeavingCard(deck) == [card |-> Head(deck), deck |-> deck]

\* Game.draw_anarchy_policy: the top card, the deck left.
DrawAnarchyPolicy(deck) == [card |-> Head(deck), deck |-> Tail(deck)]

\* Game.execute_anarchy
ExecuteAnarchy ==
    /\ pc = "execute_anarchy"
    /\ IF policy_deck = << >>
       THEN /\ outcome' = Escaped("IndexError")
            /\ pc' = "done"
            /\ UNCHANGED << policy_deck, liberal_policies_passed,
                            fascist_policies_passed, round_history >>
       ELSE LET drawn == DrawAnarchyPolicy(policy_deck)
            IN /\ policy_deck' = drawn.deck
               /\ liberal_policies_passed' =
                      IF drawn.card = LIBERAL THEN liberal_policies_passed + 1
                      ELSE liberal_policies_passed
               /\ fascist_policies_passed' =
                      IF drawn.card = FASCIST THEN fascist_policies_passed + 1
                      ELSE fascist_policies_passed
               /\ round_history' =
                      SetLast(round_history,
                          [Last(round_history) EXCEPT
                              !.anarchy_result = drawn.card])
               /\ pc' = "play_game"
               /\ UNCHANGED outcome
    /\ UNCHANGED << roles, env, random_state, consumed, returned_id, perceived,
                    presidential_order, executed_players,
                    special_election_next_president, previous_government,
                    anarchy_counter, shot_hitler, elected_hitler,
                    random_number_generator, president, chancellor,
                    successful_election, passed_policy, calls, raised,
                    departed >>

\* ----------------------------------------------------------- specification
Next ==
    \/ PlayGame
    \/ UpdatePolicyDeck
    \/ UpdateRoundHistory
    \/ DetermineNextPresident
    \/ SolicitIntentToVote
    \/ SelectChancellor
    \/ HoldElection
    \/ ElectionResults
    \/ HoldLegislationSession
    \/ ExecutiveAction
    \/ InvestigatePlayer
    \/ DeclareSpecialElection
    \/ ExecutePlayer
    \/ ExecuteAnarchy

Spec == Init /\ [][Next]_vars

\* Game.__init__ stores whatever policy_deck its caller passes, unchecked:
\* decks shorter than one draw, decks that are not 11 fascist and 6 liberal
\* cards.
SuppliedDecks ==
    { << >>,
      << FASCIST, LIBERAL >>,
      << FASCIST, FASCIST, LIBERAL, FASCIST >> }

\* The state after Game.__init__ for a deck of the caller's.
InitAnyDeck ==
    /\ hitler \in HitlerSeats
    /\ fascists = FascistsWith(hitler)
    /\ liberals = players \ fascists
    /\ policy_deck \in SuppliedDecks
    /\ presidential_order = [i \in 1 .. NumPlayers |-> i - 1]
    /\ round_history = << >>
    /\ executed_players = << >>
    /\ special_election_next_president = None
    /\ previous_government = {}
    /\ anarchy_counter = 0
    /\ liberal_policies_passed = 0
    /\ fascist_policies_passed = 0
    /\ shot_hitler = FALSE
    /\ elected_hitler = FALSE
    /\ random_number_generator = 0
    /\ pc = "play_game"
    /\ president = None
    /\ chancellor = None
    /\ successful_election = "None"
    /\ passed_policy = "None"
    /\ outcome = Running
    /\ calls = {}
    /\ raised = << >>
    /\ baseline_discard \in Policy
    /\ departed = FALSE
    /\ perceived = << >>
    /\ random_state = random_number_generator
    /\ consumed = FALSE
    /\ returned_id = None

SpecAnyDeck == InitAnyDeck /\ [][Next]_vars

\* ------------------------------------------------------------------ claims
\* The rounds of the history that ran to their end.
Completed(k) == k < Len(round_history) \/ pc = "play_game"

\* The players alive when round k opened.
LivingBefore(k) ==
    IF k = 1 THEN players
    ELSE players \ Range(RecordExecutedPlayers(round_history, k - 1))

ExecutiveCallbacks ==
    { "select_player_to_investigate", "claimed_player_investigation_result",
      "select_special_election_president", "select_player_to_execute" }

\* C1: once a president has executed Hitler no further round is played:
\* the run is back at the loop test of play_game, or play_game has returned
\* (LIBERAL, "Shot Hitler").
C1_ShotHitlerEndsGame ==
    hitler \in Range(executed_players) =>
        \/ pc = "play_game"
        \/ pc = "done" /\ outcome = Returned(LIBERAL, "Shot Hitler")

\* C2: in every round whose ballots are all booleans, the voters are the
\* players alive in that round and the election succeeded if and only if the
\* yes votes are more than half of the seated players.
C2_MajorityOfSeated ==
    \A k \in DOMAIN round_history :
        LET r == round_history[k]
            votes == r.election_results
            yes == Cardinality({p \in DOMAIN votes : votes[p] = 1})
        IN (r.successful_election # "None"
              /\ \A p \in DOMAIN votes : votes[p] \in {0, 1}) =>
               /\ DOMAIN votes = LivingBefore(k)
               /\ r.successful_election = "True"
                     <=> 2 * yes > r.number_of_players

\* C2 witness: with a player executed, a ballot carried by a majority of the
\* living players but not of the seated players has failed.
C2_Witness ==
    \E k \in DOMAIN round_history :
        LET r == round_history[k]
            votes == r.election_results
            yes == Cardinality({p \in DOMAIN votes : votes[p] = 1})
        IN /\ r.successful_election = "False"
           /\ \A p \in DOMAIN votes : votes[p] \in {0, 1}
           /\ LivingBefore(k) # players
           /\ 2 * yes > Cardinality(LivingBefore(k))

\* The failed elections in a row up to round k, counted from the start of
\* the game, the last successful election or the last anarchy draw.
RECURSIVE ConsecutiveFailures(_)
ConsecutiveFailures(k) ==
    IF k = 0 THEN 0
    ELSE IF round_history[k].successful_election # "False" THEN 0
    ELSE IF k > 1 /\ round_history[k - 1].anarchy_result # "None" THEN 1
    ELSE ConsecutiveFailures(k - 1) + 1

\* C3: a completed round ended with an anarchy draw if and only if its
\* election was the third failure in a row.
C3_AnarchyIffThirdFailure ==
    \A k \in DOMAIN round_history :
        Completed(k) =>
            (round_history[k].anarchy_result # "None"
                <=> ConsecutiveFailures(k) = 3)

\* C4: between rounds the engine's anarchy counter is the number of failed
\* elections in a row since the last success or anarchy draw, so 0 after a
\* success, 0 after a draw and never more than 2.
C4_CounterIsStreak ==
    (pc = "play_game" /\ round_history # << >>) =>
        LET r == Last(round_history)
        IN /\ anarchy_counter <= 2
           /\ anarchy_counter =
                 IF r.anarchy_result # "None" THEN 0
                 ELSE ConsecutiveFailures(Len(round_history))

\* C5: in a round whose session was vetoed no executive callback is invoked
\* and no investigation, special election or execution is recorded.
C5_NoExecutiveActionOnVeto ==
    (round_history # << >> /\ Last(round_history).president_veto = "True") =>
        LET r == Last(round_history)
        IN /\ \A c \in calls : c[1] \notin ExecutiveCallbacks
           /\ r.investigated_player = None
           /\ r.special_election_next_president = None
           /\ r.executed_player = None

\* No field of the legislative session is set in record r.
NoSession(r) ==
    /\ r.num_fascist_policies_for_president = None
    /\ r.policy_discarded_by_president = "None"
    /\ r.num_fascist_policies_for_chancellor = None
    /\ r.policy_discarded_by_chancellor = "None"
    /\ r.chancellor_veto = "None"
    /\ r.president_veto = "None"
    /\ r.president_claimed_number_of_fascist_cards_drawn = None
    /\ r.president_claimed_discarded_policy = "None"
    /\ r.chancellor_claimed_discarded_policy = "None"
    /\ r.selected_policy = "None"

\* Hitler was elected chancellor of the current round with three or more
\* fascist policies passed when the election succeeded.
HitlerElectedNow ==
    LET r == Last(round_history)
        then == fascist_policies_passed
                    - (IF r.selected_policy = FASCIST THEN 1 ELSE 0)
    IN /\ r.successful_election = "True"
       /\ chancellor = hitler
       /\ then >= 3

\* C6: once play_round has looked at the election's result, the Hitler flag
\* is set exactly if the election succeeded with Hitler as chancellor at a
\* fascist tally of 3 or more; then the round has no legislative session and
\* play_game returns (FASCIST, "Elected Hitler"), the only way to that
\* result; otherwise a successful election goes on to its session.
C6_ElectedHitler ==
    /\ elected_hitler =>
          /\ round_history # << >>
          /\ NoSession(Last(round_history))
          /\ \/ pc = "play_game" /\ outcome = Running
             \/ pc = "done" /\ outcome = Returned(FASCIST, "Elected Hitler")
    /\ outcome.reason = "Elected Hitler" => elected_hitler
    /\ (/\ round_history # << >>
        /\ Last(round_history).successful_election # "None"
        /\ pc # "election_results") =>
          /\ elected_hitler <=> HitlerElectedNow
          /\ (Last(round_history).successful_election = "True"
                 /\ ~ elected_hitler) =>
                \/ pc = "hold_legislation_session"
                \/ ~ NoSession(Last(round_history))

\* C6 witness: play_game has returned (FASCIST, "Elected Hitler").
C6_Witness ==
    /\ pc = "done"
    /\ elected_hitler
    /\ HitlerElectedNow
    /\ outcome = Returned(FASCIST, "Elected Hitler")

\* C7: when a callback raises, play_game returns the team opposite to the
\* offender's as the winner; the exception does not leave play_game.
C7_RaiseIsCaught ==
    raised # << >> =>
        /\ pc = "done"
        /\ outcome = PlayerException(raised[2])

\* C8: no record holds an out-of-domain return: chancellors are seats, votes
\* booleans, policies LIBERAL or FASCIST, the claimed count within 0..3 and
\* the claimed investigation result an Allegiance.
C8_RecordsInDomain ==
    \A k \in DOMAIN round_history :
        LET r == round_history[k]
        IN /\ r.chancellor \in players \cup {None}
           /\ \A p \in DOMAIN r.election_results :
                  r.election_results[p] \in {0, 1}
           /\ r.policy_discarded_by_president \in Policy \cup {"None"}
           /\ r.policy_discarded_by_chancellor \in Policy \cup {"None"}
           /\ r.president_claimed_discarded_policy \in Policy \cup {"None"}
           /\ r.chancellor_claimed_discarded_policy \in Policy \cup {"None"}
           /\ r.president_claimed_number_of_fascist_cards_drawn
                  \in (0 .. 3) \cup {None}
           /\ r.claimed_investigated_player_allegiance
                  \in Allegiance \cup {"None"}

\* The player who stood as chancellor in record r: self.players[r.chancellor].
Nominee(r) == PlayersAt(r.chancellor).player

\* C9: in every round that came to a vote the chancellor is a player alive
\* in that round and is not the round's president.
C9_ChancellorLivingNotPresident ==
    \A k \in DOMAIN round_history :
        LET r == round_history[k]
        IN r.election_results # << >> =>
               /\ Nominee(r) \in LivingBefore(k)
               /\ Nominee(r) # r.president

\* C10: in a round opened with more than 5 living players right after a
\* successful election, the chancellor put to the vote is neither the
\* chancellor nor the president of that government.
C10_TermLimit ==
    \A k \in DOMAIN round_history :
        LET r == round_history[k]
        IN (/\ k > 1
            /\ r.election_results # << >>
            /\ Cardinality(LivingBefore(k)) > 5
            /\ round_history[k - 1].successful_election = "True") =>
               /\ Nominee(r) # Nominee(round_history[k - 1])
               /\ Nominee(r) # round_history[k - 1].president

\* C11: a legislative session that ran to its end enacted nothing if and
\* only if the fascist tally was 5 or more when it was held and chancellor
\* and president both declared veto; the president's declaration is there
\* only after a chancellor's veto, no veto callback is invoked and no veto
\* field written below a tally of 5, a vetoed session leaves both tallies
\* as they were and any other session adds one to the tally of its policy.
C11_VetoIffBothDeclare ==
    [][pc = "hold_legislation_session" =>
        LET r == Last(round_history')
            asked == {c \in calls' \ calls : c[1] = "veto_legislation"}
            vetoed == r.selected_policy = "None"
        IN /\ fascist_policies_passed < 5 =>
                 /\ asked = {}
                 /\ r.chancellor_veto = "None"
                 /\ r.president_veto = "None"
           /\ asked # {} => << "veto_legislation", chancellor >> \in asked
           /\ r.president_veto # "None" => r.chancellor_veto = "True"
           /\ pc' # "done" =>
                 /\ vetoed <=> /\ fascist_policies_passed >= 5
                                /\ r.chancellor_veto = "True"
                                /\ r.president_veto = "True"
                 /\ vetoed =>
                       /\ liberal_policies_passed' = liberal_policies_passed
                       /\ fascist_policies_passed' = fascist_policies_passed
                 /\ r.selected_policy = LIBERAL =>
                       /\ liberal_policies_passed' =
                              liberal_policies_passed + 1
                       /\ fascist_policies_passed' = fascist_policies_passed
                 /\ r.selected_policy = FASCIST =>
                       /\ fascist_policies_passed' =
                              fascist_policies_passed + 1
                       /\ liberal_policies_passed' = liberal_policies_passed
    ]_vars

\* C11 witness: a session held at a fascist tally of 5 was vetoed by both
\* and has enacted nothing.
C11_Witness ==
    /\ round_history # << >>
    /\ fascist_policies_passed = 5
    /\ Last(round_history).chancellor_veto = "True"
    /\ Last(round_history).president_veto = "True"
    /\ Last(round_history).selected_policy = "None"
    /\ Last(round_history).chancellor_claimed_discarded_policy # "None"

\* C12: an anarchy draw takes exactly the top card off the deck, adds one to
\* the tally of that card and to no other, writes the card as the round's
\* anarchy result and nothing else, invokes no callback, and play_round
\* returns without an executive action whatever the card is.
C12_AnarchyDraw ==
    [][pc = "execute_anarchy" =>
        /\ policy_deck # << >>
        /\ policy_deck' = Tail(policy_deck)
        /\ liberal_policies_passed' = liberal_policies_passed
               + (IF Head(policy_deck) = LIBERAL THEN 1 ELSE 0)
        /\ fascist_policies_passed' = fascist_policies_passed
               + (IF Head(policy_deck) = FASCIST THEN 1 ELSE 0)
        /\ round_history' =
               SetLast(round_history,
                   [Last(round_history) EXCEPT
                       !.anarchy_result = Head(policy_deck)])
        /\ calls' = calls
        /\ \A c \in calls : c[1] \notin ExecutiveCallbacks
        /\ Last(round_history').investigated_player = None
        /\ Last(round_history').special_election_next_president = None
        /\ Last(round_history').executed_player = None
        /\ pc' = "play_game"
        /\ UNCHANGED << executed_players, presidential_order,
                        special_election_next_president >>
    ]_vars

\* C12 witness: a fascist card was enacted by anarchy and the round is over
\* with no executive callback invoked.
C12_Witness ==
    /\ pc = "play_game"
    /\ round_history # << >>
    /\ Last(round_history).anarchy_result = FASCIST
    /\ fascist_policies_passed >= 1
    /\ \A c \in calls : c[1] \notin ExecutiveCallbacks

\* The claims of a legislative session.
ClaimCallbacks ==
    { "claimed_policy_to_discard_as_president",
      "claimed_policy_to_discard_as_chancellor" }

\* C13: once the liberal tally is 5 or the fascist tally is 6, the run is on
\* its way back to the loop test of play_game or play_game has returned the
\* tally win, and when a session's enactment reached the threshold no claim
\* was asked of its government afterwards.
C13_TallyWinEndsGame ==
    (liberal_policies_passed = 5 \/ fascist_policies_passed = 6) =>
        /\ \/ pc \in {"play_game", "executive_action"} /\ outcome = Running
           \/ /\ pc = "done"
              /\ outcome =
                    IF liberal_policies_passed = 5
                    THEN Returned(LIBERAL, "Passed 5 Liberal Policies")
                    ELSE Returned(FASCIST, "Passed 6 Fascist Policies")
        /\ Last(round_history).selected_policy # "None" =>
              \A c \in calls : c[1] \notin ClaimCallbacks

\* C13, its second half alone: at a tally of 5 liberal or 6 fascist policies
\* play_game returns the tally win whatever the agents do.
C13_TallyWinIsReturned ==
    (liberal_policies_passed = 5 \/ fascist_policies_passed = 6) =>
        (pc = "done" =>
            outcome =
                IF liberal_policies_passed = 5
                THEN Returned(LIBERAL, "Passed 5 Liberal Policies")
                ELSE Returned(FASCIST, "Passed 6 Fascist Policies"))

\* C14: play_game returns because the rounds are bounded by the tallies; in
\* particular a game whose elections all fail enacts a policy by anarchy
\* with every third round, so that after n rounds n \div 3 policies are
\* enacted and a threshold is met in the end.
C14_FailedElectionsKeepEnacting ==
    (/\ pc = "play_game"
     /\ \A k \in DOMAIN round_history :
            round_history[k].successful_election = "False") =>
        liberal_policies_passed + fascist_policies_passed
            = Len(round_history) \div 3

\* The termination predicate in its priority order, on values read from the
\* chain h alone: the tallies and the executed players of its newest record,
\* and that record's government.
ChainResult(h) ==
    LET n == Len(h)
        before == IF n > 1 THEN NumberOfFascistPoliciesPassed(h, n - 1) ELSE 0
    IN IF n = 0 THEN << "None", "None" >>
       ELSE IF NumberOfLiberalPoliciesPassed(h, n) = 5
       THEN << LIBERAL, "Passed 5 Liberal Policies" >>
       ELSE IF h[n].hitler \in Range(RecordExecutedPlayers(h, n))
       THEN << LIBERAL, "Shot Hitler" >>
       ELSE IF NumberOfFascistPoliciesPassed(h, n) = 6
       THEN << FASCIST, "Passed 6 Fascist Policies" >>
       ELSE IF /\ h[n].successful_election = "True"
               /\ PlayersAt(h[n].chancellor).player = h[n].hitler
               /\ before >= 3
       THEN << FASCIST, "Elected Hitler" >>
       ELSE << "None", "None" >>

\* C15: when play_game has returned a result that is no agent fault, the
\* termination predicate evaluated on the final chain gives the same winner
\* and the same reason.
C15_ChainReplaysResult ==
    (/\ pc = "done"
     /\ outcome.kind = "returned"
     /\ outcome.reason # "PlayerException") =>
        ChainResult(round_history) = << outcome.winner, outcome.reason >>

\* The configuration handed to Game.__init__ is valid: disjoint role sets,
\* every player of the order in one of them and once in the order, the set
\* sizes of the table for the player count, Hitler a fascist of the order.
ValidConfiguration ==
    LET n == Len(presidential_order)
    IN /\ liberals \cap fascists = {}
       /\ Range(presidential_order) \subseteq liberals \cup fascists
       /\ Cardinality(Range(presidential_order)) = n
       /\ n \in 5 .. 10
       /\ Cardinality(liberals) = PARTY_MEMBERSHIP_BY_PLAYERS[n].LIBERAL
       /\ Cardinality(fascists) = PARTY_MEMBERSHIP_BY_PLAYERS[n].FASCIST
       /\ hitler \in fascists
       /\ hitler \in Range(presidential_order)

\* C16: Game.__init__ returns a game ready to play if and only if the
\* configuration is valid, and rejects every other configuration.
C16_ConstructionIffValid ==
    pc # "__init__" =>
        /\ pc = "play_game" <=> ValidConfiguration
        /\ pc = "done" <=> ~ ValidConfiguration

\* The fields in which the round state a differs from the record b.
Differences(a, b) == {f \in DOMAIN b : a[f] # b[f]}

\* The fields of a round state that hold what an agent wrote there.
AgentWritten(a) ==
    {f \in {"president", "executed_player"} : a[f] = Scribbled}

\* C17: no record of the engine's history ever holds what an agent wrote
\* into its perceived state nor a player's id; and the perceived state a
\* callback gets has one round state for each round appended so far, none
\* beyond, which is that round's record but for the player's id and what
\* the agent wrote (the current round's record is still being filled).
C17_PerceivedStateIsolated ==
    /\ [](\A k \in DOMAIN round_history :
             /\ round_history[k].your_player_id = None
             /\ round_history[k].president # Scribbled
             /\ round_history[k].executed_player # Scribbled)
    /\ [][perceived' # perceived =>
            /\ DOMAIN perceived' = DOMAIN round_history'
            /\ \A k \in DOMAIN perceived' :
                  /\ perceived'[k].record.your_player_id \in players
                  /\ k < Len(round_history') =>
                        Differences(perceived'[k].record, round_history'[k])
                            \subseteq {"your_player_id"}
                                 \cup AgentWritten(perceived'[k].record)
       ]_vars

\* C17 witness: an agent has overwritten the president of a closed round in
\* the perceived state it was handed, the engine's record of that round
\* still names the president and the game goes on.
C17_Witness ==
    /\ pc \notin {"done", "play_game"}
    /\ \E k \in DOMAIN perceived :
          /\ k < Len(round_history)
          /\ perceived[k].record.president = Scribbled
          /\ round_history[k].president \in players

\* C18: the liberal tally stays within 0..5 and the fascist tally within
\* 0..6, no step lowers either of them, and the bounds are kept because
\* with a tally at its bound no further round is opened.
C18_TalliesBoundedMonotone ==
    /\ [](/\ liberal_policies_passed \in 0 .. 5
          /\ fascist_policies_passed \in 0 .. 6
          /\ (liberal_policies_passed = 5 \/ fascist_policies_passed = 6) =>
                pc \in {"executive_action", "play_game", "done"})
    /\ [][/\ liberal_policies_passed' >= liberal_policies_passed
          /\ fascist_policies_passed' >= fascist_policies_passed]_vars

\* C18 witness: the fifth liberal policy is passed and play_game has
\* returned without opening another round.
C18_Witness ==
    /\ liberal_policies_passed = 5
    /\ pc = "done"
    /\ outcome.winner = LIBERAL
    /\ outcome.reason = "Passed 5 Liberal Policies"

\* The records of a perceived state.
Records(game_state) == [k \in DOMAIN game_state |-> game_state[k].record]

\* The rounds among 1..k of chain h that passed the policy, by a session or
\* by anarchy.
RoundsPassing(h, k, policy) ==
    {j \in 1 .. k :
        h[j].selected_policy = policy \/ h[j].anarchy_result = policy}

\* C19: in every state the engine's tallies are the tallies the newest
\* record of the chain derives, the tally derived at any record k is the
\* number of records 1..k that passed such a policy, and the chain handed
\* to a callback derives the engine's tallies as they are at its call.
C19_TalliesAreChainTallies ==
    /\ [](/\ round_history = << >> =>
                /\ liberal_policies_passed = 0
                /\ fascist_policies_passed = 0
          /\ round_history # << >> =>
                /\ liberal_policies_passed =
                       NumberOfLiberalPoliciesPassed(round_history,
                                                     Len(round_history))
                /\ fascist_policies_passed =
                       NumberOfFascistPoliciesPassed(round_history,
                                                     Len(round_history))
          /\ \A k \in DOMAIN round_history :
                /\ NumberOfLiberalPoliciesPassed(round_history, k) =
                       Cardinality(RoundsPassing(round_history, k, LIBERAL))
                /\ NumberOfFascistPoliciesPassed(round_history, k) =
                       Cardinality(RoundsPassing(round_history, k, FASCIST)))
    /\ [][perceived' # perceived =>
            /\ NumberOfLiberalPoliciesPassed(Records(perceived'),
                                             Len(perceived'))
                  = liberal_policies_passed'
            /\ NumberOfFascistPoliciesPassed(Records(perceived'),
                                             Len(perceived'))
                  = fascist_policies_passed'
       ]_vars

\* C19 witness: a fascist policy drawn by anarchy and a fascist policy
\* enacted by a later session are both in the chain at a round boundary.
C19_Witness ==
    /\ pc = "play_game"
    /\ fascist_policies_passed >= 2
    /\ \E j, k \in DOMAIN round_history :
          /\ j < k
          /\ round_history[j].anarchy_result = FASCIST
          /\ round_history[k].selected_policy = FASCIST

\* The engine is between two rounds: the newest record is of a round that
\* has completed.
BetweenRounds ==
    pc \in {"play_game", "update_policy_deck", "update_round_history", "done"}

\* C20: the round history is append-only.  A step either keeps its length
\* or appends one fresh record after the newest one, the appending step is
\* update_round_history and every round takes it once, and no step changes
\* a field of the record of a round that has completed.
C20_RoundHistoryAppendOnly ==
    [][/\ Len(round_history') \in
             {Len(round_history), Len(round_history) + 1}
       /\ Len(round_history') = Len(round_history) + 1 <=>
             pc = "update_round_history"
       /\ pc = "update_round_history" =>
             /\ pc' = "determine_next_president"
             /\ round_history' = Append(round_history, NewRoundRecord)
       /\ pc' = "determine_next_president" => pc = "update_round_history"
       /\ \A k \in DOMAIN round_history :
             (k < Len(round_history) \/ BetweenRounds) =>
                 round_history'[k] = round_history[k]
      ]_vars

\* C20 witness: a third round has filled its record behind two completed
\* rounds, one that enacted a policy and one whose election failed.
C20_Witness ==
    /\ Len(round_history) = 3
    /\ pc = "play_game"
    /\ round_history[3].president # None
    /\ \E j, k \in 1 .. 2 :
          /\ round_history[j].selected_policy # "None"
          /\ round_history[k].successful_election = "False"

\* C21: update_policy_deck rebuilds a deck of fewer than 3 cards into one
\* of 11 minus the fascist tally fascist cards and 6 minus the liberal tally
\* liberal cards and nothing else, and leaves a deck of 3 or more cards as
\* it is; every round opens with it.
C21_DeckRebuiltFromTallies ==
    [][/\ pc = "update_policy_deck" =>
            IF Len(policy_deck) < 3
            THEN /\ Count(policy_deck', FASCIST) =
                        11 - fascist_policies_passed
                 /\ Count(policy_deck', LIBERAL) =
                        6 - liberal_policies_passed
                 /\ Len(policy_deck') =
                        17 - fascist_policies_passed - liberal_policies_passed
            ELSE policy_deck' = policy_deck
       /\ pc' = "update_round_history" => pc = "update_policy_deck"
      ]_vars

\* C21 witness: a round has opened on a deck rebuilt after policies of both
\* kinds were passed.
C21_Witness ==
    /\ pc = "update_round_history"
    /\ random_number_generator # 0
    /\ fascist_policies_passed > 0
    /\ liberal_policies_passed > 0
    /\ Count(policy_deck, FASCIST) = 11 - fascist_policies_passed
    /\ Count(policy_deck, LIBERAL) = 6 - liberal_policies_passed

\* C22: the deck order does not depend on the randomness agents consume.  No
\* step but a reshuffle changes the saved generator state, whatever agents
\* draw from the process in between, and a reshuffle orders the deck, and
\* leaves the saved state, as a function of the saved state and the tallies
\* alone.
C22_DeckOrderIndependentOfAgents ==
    [][/\ pc # "update_policy_deck" =>
            random_number_generator' = random_number_generator
       /\ (pc = "update_policy_deck" /\ Len(policy_deck) < 3) =>
            /\ policy_deck' = Shuffle(11 - fascist_policies_passed,
                                      6 - liberal_policies_passed,
                                      random_number_generator)
            /\ random_number_generator' = NextState(random_number_generator)
      ]_vars

\* C22 witness: a reshuffle has happened after an agent drew from the
\* process-wide generator.
C22_Witness ==
    /\ pc = "update_round_history"
    /\ consumed
    /\ random_number_generator # 0

\* The president of round k of chain h was taken from the rotation: no
\* special election was declared in the round before.
RotationRound(h, k) ==
    k = 1 \/ h[k - 1].special_election_next_president = None

\* The last president up to round k that the rotation gave (the seat before
\* the first one when it has given none).
RECURSIVE LastRotationPresident(_, _)
LastRotationPresident(h, k) ==
    IF k = 0 THEN NumPlayers - 1
    ELSE IF RotationRound(h, k) THEN h[k].president
    ELSE LastRotationPresident(h, k - 1)

\* The players alive once round k of chain h is over.
AliveAfter(h, k) == players \ Range(RecordExecutedPlayers(h, k))

\* The first seat after p that is in S.
NextSeatIn(p, S) ==
    LET offs == {i \in 1 .. NumPlayers : (p + i) % NumPlayers \in S}
    IN (p + (CHOOSE i \in offs : \A j \in offs : i <= j)) % NumPlayers

\* The head of the rotation after round k, among the players in alive.
HeadOfRotation(h, k, alive) ==
    NextSeatIn(LastRotationPresident(h, k), alive)

\* C23 as stated: the player a special election of round r names presides
\* round r+1, and the president of round r+2 is the player who was at the
\* head of the rotation after round r, unless round r+1 declared a special
\* election of its own.
C23_SpecialElectionThenHead ==
    \A r \in DOMAIN round_history :
        LET h == round_history
            p == h[r].special_election_next_president
        IN p # None =>
            /\ (r + 1 \in DOMAIN h /\ h[r + 1].president # None) =>
                   h[r + 1].president = p
            /\ (/\ r + 2 \in DOMAIN h
                /\ h[r + 2].president # None
                /\ h[r + 1].special_election_next_president = None) =>
                   h[r + 2].president =
                       HeadOfRotation(h, r, AliveAfter(h, r))

\* C23 amended: the player a special election of round r names presides
\* round r+1; taking office clears the override and leaves the rotation as
\* it is; and the president of round r+2 is the first player of the rotation
\* as it stood after round r who is still alive after round r+1 (the head
\* itself unless round r+1 executed it), unless round r+1 declared a special
\* election of its own.
C23_SpecialElectionThenRotation ==
    /\ [](\A r \in DOMAIN round_history :
            LET h == round_history
                p == h[r].special_election_next_president
            IN p # None =>
                /\ (r + 1 \in DOMAIN h /\ h[r + 1].president # None) =>
                       h[r + 1].president = p
                /\ (/\ r + 2 \in DOMAIN h
                    /\ h[r + 2].president # None
                    /\ h[r + 1].special_election_next_president = None) =>
                       h[r + 2].president =
                           HeadOfRotation(h, r, AliveAfter(h, r + 1)))
    /\ []((pc = "play_game" /\ round_history # << >>) =>
            Head(presidential_order) =
                HeadOfRotation(round_history, Len(round_history),
                               AliveAfter(round_history, Len(round_history))))
    /\ [][(/\ pc = "determine_next_president"
           /\ special_election_next_president # None) =>
              /\ president' = special_election_next_president
              /\ special_election_next_president' = None
              /\ presidential_order' = presidential_order
         ]_vars

\* C23 witness: a special election of round r named a player who was not
\* the head of the rotation, that player presided round r+1 and the head of
\* the rotation presided round r+2.
C23_Witness ==
    \E r \in DOMAIN round_history :
        LET h == round_history
            p == h[r].special_election_next_president
        IN /\ p # None
           /\ r + 2 \in DOMAIN h
           /\ h[r + 1].president = p
           /\ h[r + 1].special_election_next_president = None
           /\ p # HeadOfRotation(h, r, AliveAfter(h, r))
           /\ h[r + 2].president = HeadOfRotation(h, r, AliveAfter(h, r))

\* The players executed before round k of the history opened.
ExecutedBefore(k) ==
    IF k <= 1 THEN {}
    ELSE Range(RecordExecutedPlayers(round_history, k - 1))

\* The players asked to vote or to declare an intent in round k, as the
\* record of the round has them.
Asked(k) ==
    LET r == round_history[k]
    IN DOMAIN r.election_results \cup
       UNION {DOMAIN r.declared_election_intent[c] :
                 c \in DOMAIN r.declared_election_intent}

\* C24: an executed player is out for good.  No executed player is in the
\* presidential rotation; and in every round, a player executed in an
\* earlier round is not the president, casts no ballot, declares no intent
\* and gets neither callback.
C24_ExecutedStayOut ==
    /\ Range(executed_players) \cap Range(presidential_order) = {}
    /\ special_election_next_president \notin Range(executed_players)
    /\ \A k \in DOMAIN round_history :
          /\ round_history[k].president \notin ExecutedBefore(k)
          /\ Asked(k) \cap ExecutedBefore(k) = {}
    /\ \A c \in calls :
          c[1] \in {"vote_on_government", "intent_to_vote_on_government"} =>
              c[2] \notin ExecutedBefore(Len(round_history))

\* C24 witness: a round after an execution has held its election, with
\* intents declared and ballots cast by everybody but the executed player.
C24_Witness ==
    /\ round_history # << >>
    /\ pc = "election_results"
    /\ ExecutedBefore(Len(round_history)) # {}
    /\ DOMAIN Last(round_history).declared_election_intent # {}
    /\ DOMAIN Last(round_history).election_results =
           players \ ExecutedBefore(Len(round_history))
    /\ << "vote_on_government", FirstOf(Living) >> \in calls

\* C25: when select_player_to_execute returns the id of a player who is
\* already executed, nobody is executed: the executed players, the rotation
\* and the round's record stay as they are and play_game returns the team
\* opposite to the president's as the winner.
C25_CorpseIsAFault ==
    [][(pc = "execute_player" /\ returned_id' \in Range(executed_players)) =>
          /\ executed_players' = executed_players
          /\ presidential_order' = presidential_order
          /\ Last(round_history').executed_player = None
          /\ pc' = "done"
          /\ outcome'.kind = "returned"
          /\ outcome'.winner =
                 IF president \in liberals THEN FASCIST ELSE LIBERAL
      ]_vars

\* C25 witness: the game is over on a president who named, for the second
\* execution, the player executed before.
C25_Witness ==
    /\ pc = "done"
    /\ << "select_player_to_execute", president >> \in calls
    /\ raised = << >>
    /\ Len(executed_players) = 1
    /\ returned_id = executed_players[1]
    /\ Last(round_history).executed_player = None
    /\ outcome.kind = "returned"

\* The three cards the session of the running round drew, in a state where
\* the session is about to start.
Drawn == Take(policy_deck, 3)

\* C26: in a legislative session the president's discard callback is
\* invoked if and only if 1 or 2 of the 3 cards drawn are fascist, with 0
\* the discard is LIBERAL and with 3 it is FASCIST; and in a session the
\* president's discard did not end, the chancellor's discard callback is
\* invoked if and only if exactly 1 of the 2 cards left is fascist, with 0
\* the discard is LIBERAL and with 2 it is FASCIST.
C26_DiscardCallbacks ==
    [][pc = "hold_legislation_session" =>
          LET r == Last(round_history')
              nfp == Count(Drawn, FASCIST)
              bypresident == r.policy_discarded_by_president
              left == IF bypresident = FASCIST THEN nfp - 1 ELSE nfp
          IN /\ r.num_fascist_policies_for_president = nfp
             /\ << "select_policy_to_discard_as_president", president >>
                    \in calls' <=> nfp \in {1, 2}
             /\ nfp = 0 => bypresident = LIBERAL
             /\ nfp = 3 => bypresident = FASCIST
             /\ bypresident # "None" =>
                  /\ r.num_fascist_policies_for_chancellor = left
                  /\ << "select_policy_to_discard_as_chancellor", chancellor >>
                         \in calls' <=> left = 1
                  /\ left = 0 => r.policy_discarded_by_chancellor = LIBERAL
                  /\ left = 2 => r.policy_discarded_by_chancellor = FASCIST
             /\ bypresident = "None" =>
                  << "select_policy_to_discard_as_chancellor", chancellor >>
                      \notin calls'
      ]_vars

\* C26 witness: the history has a session of three fascist cards and a
\* session of three liberal cards, both without a discard choice, and a
\* session in which president and chancellor both chose.
C26_Witness ==
    /\ pc = "play_game"
    /\ \E i, j, k \in DOMAIN round_history :
          /\ round_history[i].num_fascist_policies_for_president = 3
          /\ round_history[i].policy_discarded_by_chancellor = FASCIST
          /\ round_history[j].num_fascist_policies_for_president = 0
          /\ round_history[j].policy_discarded_by_chancellor = LIBERAL
          /\ k = Len(round_history)
          /\ round_history[k].num_fascist_policies_for_president = 1
          /\ round_history[k].num_fascist_policies_for_chancellor = 1
          /\ { << "select_policy_to_discard_as_president", president >>,
               << "select_policy_to_discard_as_chancellor", chancellor >> }
                 \subseteq calls

\* The cards a, b, c are, as a multiset, the cards of the tuple drawn.
SameCards(drawn, a, b, c) ==
    /\ {a, b, c} \subseteq Policy
    /\ Len(drawn) = 3
    /\ \A policy \in Policy :
          Count(<< a, b, c >>, policy) = Count(drawn, policy)

\* C27: a legislative session takes exactly the three top cards off the
\* deck, and whatever the president and the chancellor discard, the two
\* discards and the surviving policy (the one enacted, or returned to
\* play_round when the session was vetoed) are those three cards.
C27_CardsConserved ==
    [][pc = "hold_legislation_session" =>
          LET r == Last(round_history')
          IN /\ Len(policy_deck) >= 3
             /\ policy_deck' = Drop(policy_deck, 3)
             /\ r.selected_policy # "None" =>
                   SameCards(Drawn, r.policy_discarded_by_president,
                             r.policy_discarded_by_chancellor,
                             r.selected_policy)
             /\ pc' # "done" =>
                   SameCards(Drawn, r.policy_discarded_by_president,
                             r.policy_discarded_by_chancellor,
                             passed_policy')
      ]_vars

\* C27 witness: of a draw with one fascist card the president discarded a
\* liberal card, the chancellor the fascist card, and the other liberal card
\* was enacted.
C27_Witness ==
    /\ pc = "play_game"
    /\ round_history # << >>
    /\ Last(round_history).num_fascist_policies_for_president = 1
    /\ Last(round_history).policy_discarded_by_president = LIBERAL
    /\ Last(round_history).policy_discarded_by_chancellor = FASCIST
    /\ Last(round_history).selected_policy = LIBERAL
    /\ Len(policy_deck) = 8

\* The callbacks of the executive action that goes with a fascist tally.
ExecutiveCallbacksAt(tally) ==
    CASE tally \in {1, 2} -> { "select_player_to_investigate",
                               "claimed_player_investigation_result" }
      [] tally = 3 -> { "select_special_election_president" }
      [] tally \in {4, 5} -> { "select_player_to_execute" }
      [] OTHER -> {}

\* The executive callbacks invoked so far in the running round.
ExecutiveCalled == {c[1] : c \in calls} \cap ExecutiveCallbacks

\* C28: in a round whose session enacted a fascist policy the executive
\* action is the one of the fascist tally the enactment gave: no callback
\* of another action is invoked, a round that ran to its end has recorded
\* an investigation at 1 or 2, a special election at 3, an execution at 4
\* or 5 and nothing at 6, each after the callbacks of that action and no
\* other; and in a round whose session enacted a liberal policy no
\* executive callback is invoked and nothing is recorded.
C28_ExecutiveActionByTally ==
    round_history # << >> =>
        LET r == Last(round_history)
            tally == NumberOfFascistPoliciesPassed(round_history,
                                                   Len(round_history))
        IN /\ r.selected_policy = FASCIST =>
                /\ ExecutiveCalled \subseteq ExecutiveCallbacksAt(tally)
                /\ r.investigated_player # None => tally \in {1, 2}
                /\ r.special_election_next_president # None => tally = 3
                /\ r.executed_player # None => tally \in {4, 5}
                /\ pc = "play_game" =>
                     /\ ExecutiveCalled = ExecutiveCallbacksAt(tally)
                     /\ r.investigated_player # None <=> tally \in {1, 2}
                     /\ r.special_election_next_president # None <=> tally = 3
                     /\ r.executed_player # None <=> tally \in {4, 5}
           /\ r.selected_policy = LIBERAL =>
                /\ ExecutiveCalled = {}
                /\ r.investigated_player = None
                /\ r.special_election_next_president = None
                /\ r.executed_player = None

\* C28 witness: the history has an investigation, a special election and an
\* execution, and its newest round has enacted the sixth fascist policy
\* with no executive action.
C28_Witness ==
    /\ pc = "play_game"
    /\ fascist_policies_passed = 6
    /\ Last(round_history).selected_policy = FASCIST
    /\ ExecutiveCalled = {}
    /\ \E i, j, k \in DOMAIN round_history :
          /\ round_history[i].investigated_player # None
          /\ round_history[j].special_election_next_president # None
          /\ round_history[k].executed_player # None

\* C29: every investigation recorded in a round targets a player alive in
\* that round who is not the round's president, and the identity recorded
\* with it is FASCIST if and only if the target is in the fascist set.
C29_InvestigationTarget ==
    \A k \in DOMAIN round_history :
        LET r == round_history[k]
        IN r.investigated_player # None =>
              /\ r.investigated_player \in players \ ExecutedBefore(k)
              /\ r.investigated_player # r.president
              /\ r.investigated_player_identity = FASCIST
                    <=> r.investigated_player \in fascists

\* The part of C29 about the recorded identity alone.
C29_IdentityIsTrue ==
    \A k \in DOMAIN round_history :
        LET r == round_history[k]
        IN r.investigated_player # None =>
              /\ r.investigated_player \in players
              /\ r.investigated_player_identity \in Allegiance
              /\ r.investigated_player_identity = FASCIST
                    <=> r.investigated_player \in fascists

\* The chancellor candidates intents were declared about in round k.
IntentSubjects(k) == DOMAIN round_history[k].declared_election_intent

\* The candidates eligible to stand in round k: the players alive in the
\* round but the president and, with 6 or more alive, those the term limit
\* excludes (the record's ineligibility set).
EligibleToStand(k) ==
    (LivingBefore(k) \ {round_history[k].president})
        \ Range(IneligibleForChancellorship(round_history, k))

\* C30: in every round that solicited intents, every player alive in the
\* round declared for exactly the candidates eligible to stand: nobody was
\* asked about the president, an executed player or a player the term limit
\* excludes.
C30_IntentForEligibleCandidates ==
    \A k \in DOMAIN round_history :
        LET r == round_history[k]
        IN IntentSubjects(k) # {} =>
              /\ IntentSubjects(k) = EligibleToStand(k)
              /\ \A c \in IntentSubjects(k) :
                    DOMAIN r.declared_election_intent[c] = LivingBefore(k)

\* The part of C30 that leaves the term limit out.
C30_IntentFromLivingAboutOthers ==
    \A k \in DOMAIN round_history :
        LET r == round_history[k]
        IN IntentSubjects(k) # {} =>
              /\ IntentSubjects(k) = LivingBefore(k) \ {r.president}
              /\ \A c \in IntentSubjects(k) :
                    DOMAIN r.declared_election_intent[c] = LivingBefore(k)

\* No claim is in record r.
NoClaims(r) ==
    /\ r.president_claimed_number_of_fascist_cards_drawn = None
    /\ r.president_claimed_discarded_policy = "None"
    /\ r.chancellor_claimed_discarded_policy = "None"

\* All three claims are in record r.
AllClaims(r) ==
    /\ r.president_claimed_number_of_fascist_cards_drawn # None
    /\ r.president_claimed_discarded_policy # "None"
    /\ r.chancellor_claimed_discarded_policy # "None"

\* The methods of the callbacks a step invokes.
NewlyCalled == {c[1] : c \in calls' \ calls}

\* C31: the claims are independent.  The game state a claim callback gets,
\* the president's as well as the chancellor's, has no claim of the running
\* round in it; the record gets the three claims together, and only after
\* both callbacks have been invoked and the session went on to its end; and
\* with the claims written the discards and the selected policy of the
\* record are still the cards that were drawn, whatever was claimed.
C31_ClaimsIndependent ==
    [][pc = "hold_legislation_session" =>
          LET r == Last(round_history')
              seen == Last(perceived').record
          IN /\ "claimed_policy_to_discard_as_president" \in NewlyCalled =>
                   /\ NoClaims(seen)
                   /\ seen.your_player_id =
                         IF "claimed_policy_to_discard_as_chancellor"
                                \in NewlyCalled
                         THEN chancellor ELSE president
             /\ NoClaims(r) \/ AllClaims(r)
             /\ AllClaims(r) <=>
                   /\ { "claimed_policy_to_discard_as_president",
                        "claimed_policy_to_discard_as_chancellor" }
                          \subseteq NewlyCalled
                   /\ pc' # "done"
             /\ AllClaims(r) =>
                   /\ r.num_fascist_policies_for_president =
                          Count(Drawn, FASCIST)
                   /\ SameCards(Drawn, r.policy_discarded_by_president,
                                r.policy_discarded_by_chancellor,
                                passed_policy')
      ]_vars

\* C31 witness: the chancellor has just made a claim on a game state that
\* shows the president's discard and no claim, while the record has a claim
\* of the president that is not the president's discard.
C31_Witness ==
    /\ pc \in {"play_game", "executive_action"}
    /\ << "claimed_policy_to_discard_as_chancellor", chancellor >> \in calls
    /\ perceived # << >>
    /\ Len(perceived) = Len(round_history)
    /\ Last(perceived).record.your_player_id = chancellor
    /\ Last(perceived).record.policy_discarded_by_president # "None"
    /\ NoClaims(Last(perceived).record)
    /\ AllClaims(Last(round_history))
    /\ Last(round_history).president_claimed_discarded_policy
          # Last(round_history).policy_discarded_by_president

\* C32: at the end of every round the engine's anarchy counter is the
\* anarchy counter the newest record of the chain derives.
C32_CounterIsChainCounter ==
    (pc = "play_game" /\ round_history # << >>) =>
        anarchy_counter = AnarchyCounter(round_history, Len(round_history))

\* C33: no game executes more than two players.
C33_AtMostTwoExecuted ==
    Len(executed_players) <= 2

\* C34: at every round boundary the presidential rotation has every living
\* player exactly once and no executed player, and the engine's executed
\* players are the executed players the newest record of the chain derives;
\* and the president of every round is a player alive in that round.
C34_RotationIsTheLiving ==
    /\ pc = "play_game" =>
          /\ Range(presidential_order) = players \ Range(executed_players)
          /\ Len(presidential_order) = Cardinality(Range(presidential_order))
          /\ round_history # << >> =>
                executed_players =
                    RecordExecutedPlayers(round_history, Len(round_history))
          /\ round_history = << >> => executed_players = << >>
    /\ \A k \in DOMAIN round_history :
          round_history[k].president # None =>
              round_history[k].president \in LivingBefore(k)

\* C34 witness: at a round boundary after two executions, the second by a
\* president the rotation gave after the first.
C34_Witness ==
    /\ pc = "play_game"
    /\ Len(executed_players) = 2
    /\ Len(presidential_order) = NumPlayers - 2
    /\ \E j, k \in DOMAIN round_history :
          /\ j < k
          /\ round_history[j].executed_player = executed_players[1]
          /\ round_history[k].executed_player = executed_players[2]
          /\ RotationRound(round_history, k)

\* C35: whatever deck the caller supplied, the deck holds at least 3 cards
\* once the deck check of a round is done, the legislative draw takes exactly
\* 3 cards off it, the anarchy draw finds a card and takes exactly one, no
\* other step of the round draws, and no draw ends the game with an error.
C35_DrawsNeverUnderflow ==
    /\ [](pc \in { "update_round_history", "determine_next_president",
                   "solicit_intent_to_vote", "select_chancellor",
                   "hold_election", "election_results",
                   "hold_legislation_session", "execute_anarchy" }
            => Len(policy_deck) >= 3)
    /\ [][ /\ pc = "hold_legislation_session" =>
                /\ Len(DrawLegislativeSessionPolicies(policy_deck).cards) = 3
                /\ Len(policy_deck') = Len(policy_deck) - 3
           /\ pc = "execute_anarchy" =>
                /\ policy_deck # << >>
                /\ Len(policy_deck') = Len(policy_deck) - 1
                /\ outcome' = outcome
           /\ pc \notin { "hold_legislation_session", "execute_anarchy",
                          "update_policy_deck" } =>
                policy_deck' = policy_deck ]_vars

\* C35 witness: a game that was handed a deck of 4 cards drew 3 of them in
\* round 1, rebuilt the deck from the tallies at the check of round 2 and is
\* at the legislative draw of round 2 with the 16 cards not enacted.
C35_Witness ==
    /\ pc = "hold_legislation_session"
    /\ Len(round_history) = 2
    /\ round_history[1].num_fascist_policies_for_president # None
    /\ round_history[1].selected_policy # "None"
    /\ random_number_generator = 1
    /\ Len(policy_deck) = 16

\* The branch of ineligible_for_chancellorship that record k of chain h takes.
IneligibleBranch(h, k) ==
    IF k = 1 THEN "first"
    ELSE IF h[k].number_of_players - Len(RecordExecutedPlayers(h, k)) <= 5
    THEN "small"
    ELSE IF h[k - 1].successful_election = "True" THEN "succeeded"
    ELSE "inherited"

NoExecutive(r) ==
    /\ r.investigated_player = None
    /\ r.investigated_player_identity = "None"
    /\ r.claimed_investigated_player_allegiance = "None"
    /\ r.special_election_next_president = None
    /\ r.executed_player = None

\* Session and executive-action fields only after a successful election.
C37_SessionOnlyAfterElection ==
    \A k \in DOMAIN round_history :
        round_history[k].successful_election # "True" =>
            NoSession(round_history[k]) /\ NoExecutive(round_history[k])

\* An anarchy result only after a failed election, and never next to an
\* enacted policy.
C37_AnarchyOnlyAfterFailure ==
    \A k \in DOMAIN round_history :
        round_history[k].anarchy_result # "None" =>
            /\ round_history[k].successful_election = "False"
            /\ round_history[k].selected_policy = "None"

\* Executive-action fields only next to an enacted fascist policy.
C37_ExecutiveOnlyAfterFascist ==
    \A k \in DOMAIN round_history :
        ~NoExecutive(round_history[k]) =>
            round_history[k].selected_policy = FASCIST

\* C37: every record of the chain is phase-consistent: the fields of the
\* legislative session, of the veto, of the claims and of the executive
\* action are set only if the record's election succeeded, an anarchy result
\* only if it failed, never an enacted policy together with an anarchy result,
\* and an executive-action field only if the enacted policy is fascist.
C37_PhaseConsistent ==
    /\ C37_SessionOnlyAfterElection
    /\ C37_AnarchyOnlyAfterFailure
    /\ C37_ExecutiveOnlyAfterFascist

\* C38: the error branches that guard the engine's own invariants are never
\* taken.  The executive action is dispatched only at a fascist tally of 1
\* to 6; the president's discard is decided on 0 to 3 fascist cards and the
\* chancellor's on 0 to 2; so neither step ends the game with the ValueError
\* or the unbound discard of an impossible count, whatever the agents do.
C38_ErrorBranchesUnreachable ==
    /\ [](pc = "executive_action" => fascist_policies_passed \in 1 .. 6)
    /\ [](\A k \in DOMAIN round_history :
            /\ round_history[k].num_fascist_policies_for_president
                   \in {None} \cup 0 .. 3
            /\ round_history[k].num_fascist_policies_for_chancellor
                   \in {None} \cup 0 .. 2)
    /\ [][ /\ pc = "hold_legislation_session" =>
                /\ Count(Drawn, FASCIST) \in 0 .. 3
                /\ Last(round_history').num_fascist_policies_for_president
                       = Count(Drawn, FASCIST)
                /\ outcome' \notin { Escaped("ValueError"),
                                     Escaped("UnboundLocalError") }
           /\ pc = "executive_action" =>
                /\ outcome' = outcome
                /\ pc' # "done" ]_vars

\* C38 witness: the dispatch at the top of its range, a tally of 6, after a
\* session at the top of both counts: three fascist cards for the president
\* and two for the chancellor.
C38_Witness ==
    /\ pc = "executive_action"
    /\ fascist_policies_passed = 6
    /\ Last(round_history).num_fascist_policies_for_president = 3
    /\ Last(round_history).num_fascist_policies_for_chancellor = 2

====
